---------------------------- MODULE Spec2Model ----------------------------
(***************************************************************************)
(* Model of services/user_preferences.py (UserPreferencesService): the     *)
(* preference schema, validation, string storage in the shared bot_config  *)
(* table, the instance-local read cache and its time-to-live.              *)
(*                                                                         *)
(* Python values are tagged records [t, n, s] so that values of different  *)
(* Python types can be compared: t is the type name, n the numeric payload *)
(* (bool, int, float) and s the text payload (str, list as JSON text).     *)
(* Only integer-valued floats are modelled.  Strings are TLA+ strings,     *)
(* taken apart character by character with SubSeq.  The date format        *)
(* 'YYYY<U+5E74>MM<U+6708>DD<U+65E5>' is written with the ASCII stand-ins  *)
(* "(nen)", "(gatsu)", "(nichi)" for the three CJK characters.             *)
(***************************************************************************)
EXTENDS Integers, Sequences, FiniteSets, TLC

VARIABLES
    bot_config,   \* the shared table: the stored string of every key that has a row
    cache,        \* self._preferences_cache: NoCache or a snapshot
    cacheTs,      \* self._cache_timestamp: NoTimestamp or the time of the last load
    now,          \* the wall clock, in whole seconds
    store,        \* what the next connection to the store does: see StoreStates
    open,         \* the number of connections the instance holds open
    last,         \* the last call completed on the instance (observation)
    prev,         \* the call completed before it (observation)
    ext,          \* TRUE when another writer changed the table after `last`
    frames,       \* the call each thread sharing the instance is inside
    overlapped,   \* TRUE once a call began while another was in progress
    test_db       \* the tables the test data generator writes

vars == <<bot_config, cache, cacheTs, now, store, open, last, prev, ext,
          frames, overlapped, test_db>>

\* self._preferences_cache = None: like the empty dict, None is false in
\* "if self._preferences_cache", and the model writes both as the empty map
NoCache == << >>

\* self._cache_timestamp = None
NoTimestamp == -1

----------------------------------------------------------------------------
(* Python values *)

PyBool(b) == [t |-> "bool", n |-> IF b THEN 1 ELSE 0, s |-> ""]
PyInt(i) == [t |-> "int", n |-> i, s |-> ""]
PyFloat(i) == [t |-> "float", n |-> i, s |-> ""]
PyStr(x) == [t |-> "str", n |-> 0, s |-> x]
PyNone == [t |-> "none", n |-> 0, s |-> ""]
PyList(json) == [t |-> "list", n |-> 0, s |-> json]

\* the floats that are no number of the line: float('inf'), float('-inf')
\* (sign 1 and -1) and float('nan')
PyInfinity(sign) == [t |-> "float", n |-> sign, s |-> "inf"]
PyNaN == [t |-> "float", n |-> 0, s |-> "nan"]

IsNumeric(v) == v.t \in {"bool", "int", "float"}

\* Python's ==: bool, int and float compare by numeric value (False == 0,
\* 50.0 == 50); an infinity equals only itself and nan equals nothing;
\* values of unrelated types are unequal.
PyEq(a, b) ==
    IF IsNumeric(a) /\ IsNumeric(b)
    THEN a.n = b.n /\ a.s = b.s /\ a.s # "nan"
    ELSE a.t = b.t /\ a.s = b.s

\* Python's `value in sequence`
PyIn(v, seq) == \E i \in 1..Len(seq) : PyEq(v, seq[i])

----------------------------------------------------------------------------
(* Characters and strings *)

Digits == "0123456789"
Lowers == "abcdefghijklmnopqrstuvwxyz"
Uppers == "ABCDEFGHIJKLMNOPQRSTUVWXYZ"
\* code-point order of the characters the model uses
Alphabet == "()+-./" \o Digits \o Uppers \o "[]_" \o Lowers

CharAt(str, i) == SubSeq(str, i, i)

Chars(str) == {CharAt(str, i) : i \in 1..Len(str)}

\* the position of each character of str in str (characters are distinct)
PositionIn(str) ==
    [c \in Chars(str) |-> CHOOSE i \in 1..Len(str) : CharAt(str, i) = c]

DigitPosition == PositionIn(Digits)
UpperPosition == PositionIn(Uppers)
CodeOrder == PositionIn(Alphabet)

IsDigit(c) == c \in DOMAIN DigitPosition
DigitValue(c) == DigitPosition[c] - 1

\* the position of the first c in str, 0 when there is none
IndexIn(c, str) ==
    IF \E i \in 1..Len(str) : CharAt(str, i) = c
    THEN CHOOSE i \in 1..Len(str) :
             CharAt(str, i) = c /\ \A j \in 1..(i - 1) : CharAt(str, j) # c
    ELSE 0

AllDigits(str) == Len(str) > 0 /\ \A i \in 1..Len(str) : IsDigit(CharAt(str, i))

StartsWith(str, p) == Len(str) >= Len(p) /\ SubSeq(str, 1, Len(p)) = p

\* ASCII case folding, as SQLite's LIKE applies it
Fold(c) == IF c \in DOMAIN UpperPosition THEN CharAt(Lowers, UpperPosition[c]) ELSE c

\* lexicographic order by code point, as sorted() compares str
RECURSIVE StrLess(_, _)
StrLess(a, b) ==
    IF Len(b) = 0 THEN FALSE
    ELSE IF Len(a) = 0 THEN TRUE
    ELSE IF CharAt(a, 1) = CharAt(b, 1)
         THEN StrLess(SubSeq(a, 2, Len(a)), SubSeq(b, 2, Len(b)))
         ELSE CodeOrder[CharAt(a, 1)] < CodeOrder[CharAt(b, 1)]

\* str.replace(old, ''): every non-overlapping occurrence, left to right
RECURSIVE StrRemoveAll(_, _)
StrRemoveAll(str, old) ==
    IF Len(str) = 0 THEN ""
    ELSE IF StartsWith(str, old)
         THEN StrRemoveAll(SubSeq(str, Len(old) + 1, Len(str)), old)
         ELSE CharAt(str, 1) \o StrRemoveAll(SubSeq(str, 2, Len(str)), old)

\* str.replace(old, new): every non-overlapping occurrence, left to right
RECURSIVE StrReplace(_, _, _)
StrReplace(str, old, new) ==
    IF Len(str) = 0 THEN ""
    ELSE IF StartsWith(str, old)
         THEN new \o StrReplace(SubSeq(str, Len(old) + 1, Len(str)), old, new)
         ELSE CharAt(str, 1) \o StrReplace(SubSeq(str, 2, Len(str)), old, new)

LowerPosition == PositionIn(Lowers)

\* str.title() from a position on: the first letter of every run of letters
\* in upper case, the other letters in lower case
RECURSIVE TitleFrom(_, _)
TitleFrom(str, inWord) ==
    IF Len(str) = 0 THEN ""
    ELSE LET c == CharAt(str, 1)
             rest == SubSeq(str, 2, Len(str))
         IN  IF c \in DOMAIN LowerPosition
             THEN (IF inWord THEN c ELSE CharAt(Uppers, LowerPosition[c]))
                  \o TitleFrom(rest, TRUE)
             ELSE IF c \in DOMAIN UpperPosition
             THEN (IF inWord THEN Fold(c) ELSE c) \o TitleFrom(rest, TRUE)
             ELSE c \o TitleFrom(rest, FALSE)

Title(str) == TitleFrom(str, FALSE)

\* SQL LIKE: '_' matches exactly one character, '%' any run of characters,
\* every other character matches itself without regard to ASCII case.
RECURSIVE SqlLike(_, _)
SqlLike(str, pat) ==
    IF Len(pat) = 0 THEN Len(str) = 0
    ELSE IF CharAt(pat, 1) = "%"
         THEN \E i \in 0..Len(str) :
                  SqlLike(SubSeq(str, i + 1, Len(str)), SubSeq(pat, 2, Len(pat)))
    ELSE IF Len(str) = 0 THEN FALSE
    ELSE /\ \/ CharAt(pat, 1) = "_"
            \/ Fold(CharAt(pat, 1)) = Fold(CharAt(str, 1))
         /\ SqlLike(SubSeq(str, 2, Len(str)), SubSeq(pat, 2, Len(pat)))

\* decimal text of a natural number / of an integer: str(int)
RECURSIVE NatToStr(_)
NatToStr(i) ==
    IF i < 10 THEN CharAt(Digits, i + 1)
    ELSE NatToStr(i \div 10) \o CharAt(Digits, (i % 10) + 1)

IntToStr(i) == IF i < 0 THEN "-" \o NatToStr(0 - i) ELSE NatToStr(i)

\* value of a non-empty run of decimal digits
RECURSIVE StrToNat(_)
StrToNat(str) ==
    IF Len(str) = 1 THEN DigitValue(str)
    ELSE 10 * StrToNat(SubSeq(str, 1, Len(str) - 1))
         + DigitValue(CharAt(str, Len(str)))

----------------------------------------------------------------------------
(* Conversions between Python values and stored strings *)

\* text of a JSON integer: -?(0|[1-9][0-9]*)
IsJsonInt(str) ==
    LET body == IF StartsWith(str, "-") THEN SubSeq(str, 2, Len(str)) ELSE str
    IN  AllDigits(body) /\ (Len(body) = 1 \/ CharAt(body, 1) # "0")

\* text of a JSON number with a fraction of zeros only (the integer-valued
\* floats of the model): <JSON integer>.0+
IsJsonFloat(str) ==
    \E d \in 1..Len(str) :
        /\ CharAt(str, d) = "."
        /\ IsJsonInt(SubSeq(str, 1, d - 1))
        /\ d < Len(str)
        /\ \A i \in (d + 1)..Len(str) : CharAt(str, i) = "0"

SignedValue(str) ==
    IF StartsWith(str, "-") THEN 0 - StrToNat(SubSeq(str, 2, Len(str)))
    ELSE StrToNat(str)

\* a JSON string without escapes: "..."
IsJsonString(str) ==
    /\ Len(str) >= 2
    /\ CharAt(str, 1) = "\""
    /\ CharAt(str, Len(str)) = "\""
    /\ \A i \in 2..(Len(str) - 1) : CharAt(str, i) \notin {"\"", "\\"}

\* json.loads(text): [ok |-> FALSE] stands for JSONDecodeError.  The texts
\* of the model are the literals, integers, floats with a zero fraction,
\* plain strings, the empty list and the three constants NaN, Infinity and
\* -Infinity that json.loads accepts beyond JSON; none is a nested value.
JsonLoads(str) ==
    IF str = "true" THEN [ok |-> TRUE, v |-> PyBool(TRUE)]
    ELSE IF str = "false" THEN [ok |-> TRUE, v |-> PyBool(FALSE)]
    ELSE IF str = "null" THEN [ok |-> TRUE, v |-> PyNone]
    ELSE IF str = "Infinity" THEN [ok |-> TRUE, v |-> PyInfinity(1)]
    ELSE IF str = "-Infinity" THEN [ok |-> TRUE, v |-> PyInfinity(-1)]
    ELSE IF str = "NaN" THEN [ok |-> TRUE, v |-> PyNaN]
    ELSE IF str = "[]" THEN [ok |-> TRUE, v |-> PyList("[]")]
    ELSE IF IsJsonInt(str) THEN [ok |-> TRUE, v |-> PyInt(SignedValue(str))]
    ELSE IF IsJsonFloat(str)
         THEN [ok |-> TRUE,
               v |-> PyFloat(SignedValue(
                        SubSeq(str, 1, IndexIn(".", str) - 1)))]
    ELSE IF IsJsonString(str)
         THEN [ok |-> TRUE, v |-> PyStr(SubSeq(str, 2, Len(str) - 1))]
    ELSE [ok |-> FALSE, v |-> PyNone]

\* text int() accepts: an optional sign and decimal digits
IsPyIntLiteral(str) ==
    LET body == IF StartsWith(str, "-") \/ StartsWith(str, "+")
                THEN SubSeq(str, 2, Len(str)) ELSE str
    IN  AllDigits(body)

\* int(value) raising OverflowError: "cannot convert float infinity to
\* integer"
IntOverflows(v) == v.t = "float" /\ v.s = "inf"

\* int(value): [ok |-> FALSE] stands for ValueError / TypeError, and for
\* the OverflowError of IntOverflows
PyIntOf(v) ==
    IF IsNumeric(v) /\ v.s = "" THEN [ok |-> TRUE, v |-> PyInt(v.n)]
    ELSE IF v.t = "str" /\ IsPyIntLiteral(v.s)
         THEN [ok |-> TRUE,
               v |-> PyInt(IF StartsWith(v.s, "+")
                           THEN StrToNat(SubSeq(v.s, 2, Len(v.s)))
                           ELSE SignedValue(v.s))]
    ELSE [ok |-> FALSE, v |-> v]

\* str(value)
PyStrOf(v) ==
    CASE v.t = "bool" -> IF v.n = 1 THEN "True" ELSE "False"
      [] v.t = "int" -> IntToStr(v.n)
      [] v.t = "float" /\ v.s = "" -> IntToStr(v.n) \o ".0"
      [] v.t = "float" /\ v.s = "inf" -> IF v.n < 0 THEN "-inf" ELSE "inf"
      [] v.t = "float" /\ v.s = "nan" -> "nan"
      [] v.t = "str" -> v.s
      [] v.t = "none" -> "None"
      [] v.t = "list" -> v.s

\* set_preference, "Convert value to string for storage"
Serialize_NumericBool(value) ==
    IF value.t = "bool" THEN IntToStr(value.n)
    ELSE IF value.t = "list" THEN value.s
    ELSE PyStrOf(value)

Serialize(value) ==
    IF value.t = "bool" THEN (IF value.n = 1 THEN "true" ELSE "false")
    ELSE IF value.t = "list" THEN value.s
    ELSE PyStrOf(value)

IntegerKeys == {"messages_per_page", "auto_refresh_interval", "dashboard_refresh_rate"}

\* get_all_preferences, "Try to parse as JSON ... If not JSON, use as string"
ParseOrRaw(raw) == IF JsonLoads(raw).ok THEN JsonLoads(raw).v ELSE PyStr(raw)

\* get_all_preferences, "Convert string booleans"
CoerceBool(value) ==
    IF PyIn(value, <<PyStr("true"), PyStr("True")>>) THEN PyBool(TRUE)
    ELSE IF PyIn(value, <<PyStr("false"), PyStr("False")>>) THEN PyBool(FALSE)
    ELSE value

\* get_all_preferences, "Convert string numbers": a failed int() is ignored
CoerceInt(key, value) ==
    IF key \in IntegerKeys /\ PyIntOf(value).ok THEN PyIntOf(value).v
    ELSE value

\* get_all_preferences, the body of the loop over the fetched rows: the
\* value kept for key from the stored string raw
DecodeRow(key, raw) == CoerceInt(key, CoerceBool(ParseOrRaw(raw)))

\* the exception that leaves the body of the loop: the handler around int()
\* names ValueError and TypeError only
DecodeError(key, raw) ==
    IF key \in IntegerKeys /\ IntOverflows(CoerceBool(ParseOrRaw(raw)))
    THEN "OverflowError"
    ELSE "ok"

----------------------------------------------------------------------------
(* The schema *)

\* the keys of DEFAULT_PREFERENCES, in the order of the dict
SchemaKeys ==
    << "timezone", "date_format", "time_format", "messages_per_page",
       "auto_refresh_interval", "show_message_previews",
       "show_reaction_notifications", "enable_auto_reactions",
       "default_emoji_mode", "language", "show_unmonitored_groups",
       "compact_message_view", "enable_ai_features", "default_ai_provider",
       "activity_chart_style", "dashboard_refresh_rate",
       "filter_persist_navigation", "show_deleted_messages",
       "notification_sound" >>

SeqRange(seq) == {seq[i] : i \in 1..Len(seq)}

KnownKeys == SeqRange(SchemaKeys)

\* the value DEFAULT_PREFERENCES gives each key
DefaultOf(k) ==
        CASE k = "timezone" -> PyStr("UTC")
          [] k = "date_format" -> PyStr("YYYY-MM-DD")
          [] k = "time_format" -> PyStr("24h")
          [] k = "messages_per_page" -> PyInt(50)
          [] k = "auto_refresh_interval" -> PyInt(30)
          [] k = "show_message_previews" -> PyBool(TRUE)
          [] k = "show_reaction_notifications" -> PyBool(TRUE)
          [] k = "enable_auto_reactions" -> PyBool(TRUE)
          [] k = "default_emoji_mode" -> PyStr("random")
          [] k = "language" -> PyStr("en")
          [] k = "show_unmonitored_groups" -> PyBool(FALSE)
          [] k = "compact_message_view" -> PyBool(FALSE)
          [] k = "enable_ai_features" -> PyBool(TRUE)
          [] k = "default_ai_provider" -> PyStr("ollama")
          [] k = "activity_chart_style" -> PyStr("bars")
          [] k = "dashboard_refresh_rate" -> PyInt(60)
          [] k = "filter_persist_navigation" -> PyBool(TRUE)
          [] k = "show_deleted_messages" -> PyBool(FALSE)
          [] k = "notification_sound" -> PyBool(TRUE)

DEFAULT_PREFERENCES_Quoted ==
    [k \in KnownKeys |->
        IF k = "messages_per_page" THEN PyStr("50") ELSE DefaultOf(k)]

DEFAULT_PREFERENCES == [k \in KnownKeys |-> DefaultOf(k)]

\* pytz.all_timezones: a sample of the timezone database, in its order
AllTimezones ==
    << "Africa/Cairo", "America/New_York", "Asia/Hong_Kong", "Asia/Shanghai",
       "Asia/Singapore", "Asia/Tokyo", "Australia/Melbourne",
       "Australia/Sydney", "Etc/GMT+1", "Europe/Berlin", "Europe/London",
       "Europe/Paris", "GMT", "US/Central", "US/Eastern", "US/Mountain",
       "US/Pacific", "UTC", "Zulu" >>

common_zones ==
    << "UTC", "US/Eastern", "US/Central", "US/Mountain", "US/Pacific",
       "Europe/London", "Europe/Paris", "Europe/Berlin", "Asia/Tokyo",
       "Asia/Shanghai", "Asia/Hong_Kong", "Asia/Singapore",
       "Australia/Sydney", "Australia/Melbourne" >>

\* sorted(list of str)
RECURSIVE SortedStrs(_)
SortedStrs(seq) ==
    IF Len(seq) = 0 THEN << >>
    ELSE LET m == CHOOSE i \in 1..Len(seq) :
                      \A j \in 1..Len(seq) :
                          ~StrLess(seq[j], seq[i]) \/ seq[j] = seq[i]
         IN  <<seq[m]>> \o
             SortedStrs(SubSeq(seq, 1, m - 1) \o SubSeq(seq, m + 1, Len(seq)))

\* _get_timezone_options over the list pytz.all_timezones
get_timezone_options_All(all_timezones) ==
    common_zones \o SortedStrs(all_timezones)

get_timezone_options(all_timezones) ==
    LET IsOther(tz) == tz \notin SeqRange(common_zones)
    IN  common_zones \o SortedStrs(SelectSeq(all_timezones, IsOther))

\* self.PREFERENCE_OPTIONS['timezone'] once __init__ has run
TimezoneOptions == get_timezone_options(AllTimezones)

StrOptions(seq) == [i \in 1..Len(seq) |-> PyStr(seq[i])]
IntOptions(seq) == [i \in 1..Len(seq) |-> PyInt(seq[i])]

OptionKeys ==
    { "timezone", "date_format", "time_format", "messages_per_page",
      "auto_refresh_interval", "default_emoji_mode", "language",
      "default_ai_provider", "activity_chart_style", "dashboard_refresh_rate" }

\* PREFERENCE_OPTIONS, after __init__ has filled in the timezone entry
PREFERENCE_OPTIONS_Foreign == [k \in OptionKeys |-> StrOptions(<<"other">>)]

PREFERENCE_OPTIONS ==
    [k \in OptionKeys |->
        CASE k = "timezone" -> StrOptions(TimezoneOptions)
          [] k = "date_format" ->
                StrOptions(<< "YYYY-MM-DD", "DD/MM/YYYY", "MM/DD/YYYY",
                              "DD.MM.YYYY", "YYYY(nen)MM(gatsu)DD(nichi)" >>)
          [] k = "time_format" -> StrOptions(<< "24h", "12h" >>)
          [] k = "messages_per_page" -> IntOptions(<< 25, 50, 100, 200 >>)
          [] k = "auto_refresh_interval" -> IntOptions(<< 0, 15, 30, 60, 120, 300 >>)
          [] k = "default_emoji_mode" -> StrOptions(<< "random", "fixed", "disabled" >>)
          [] k = "language" -> StrOptions(<< "en", "ja", "es", "fr", "de", "zh" >>)
          [] k = "default_ai_provider" ->
                StrOptions(<< "ollama", "openai", "anthropic", "gemini", "groq" >>)
          [] k = "activity_chart_style" -> StrOptions(<< "bars", "heatmap", "line" >>)
          [] k = "dashboard_refresh_rate" -> IntOptions(<< 0, 30, 60, 120, 300 >>)]

\* set_preference, the two validation tests: "raise" names the ValueError
Validate(key, value) ==
    IF key \notin DOMAIN DEFAULT_PREFERENCES THEN "unknown_key"
    ELSE IF /\ key \in DOMAIN PREFERENCE_OPTIONS
            /\ Len(PREFERENCE_OPTIONS[key]) > 0
            /\ ~PyIn(value, PREFERENCE_OPTIONS[key])
         THEN "invalid_value"
    ELSE "ok"

----------------------------------------------------------------------------
(* The table and the cache *)

CacheTimeout == 60
DaySeconds == 86400

\* timedelta.seconds of a difference of d whole seconds: the seconds field
\* of the normalised (days, seconds) pair, always in 0..86399
TimedeltaSeconds(d) == d % DaySeconds

\* get_all_preferences, "Check cache first"
CacheHit_Never(c, ts, t) == FALSE

CacheHit_Always(c, ts, t) == TRUE

CacheHit(c, ts, t) ==
    /\ DOMAIN c # {}
    /\ ts # NoTimestamp
    /\ TimedeltaSeconds(t - ts) < CacheTimeout

\* the rows a statement with WHERE key LIKE 'pref_%' selects
PrefRows(rows) == {k \in DOMAIN rows : SqlLike(k, "pref_%")}

\* row['key'].replace('pref_', '')
StripPrefix_Keep(rowKey) == rowKey

StripPrefix(rowKey) == StrRemoveAll(rowKey, "pref_")

\* the rows fetched, by the key each is kept under.  No two rows of the
\* model strip to the same key, so the order in which fetchall() returns
\* them does not matter.
Overrides(rows, sel) ==
    [key \in {StripPrefix(k) : k \in sel} |->
        DecodeRow(key, rows[CHOOSE k \in sel : StripPrefix(k) = key])]

\* get_all_preferences, "Load from database": the defaults overwritten by
\* the decoded rows
Reload(rows) == Overrides(rows, PrefRows(rows)) @@ DEFAULT_PREFERENCES

\* the exception a fetched row ends the load with, "ok" when none does
ReloadError(rows) ==
    IF \E k \in PrefRows(rows) : DecodeError(StripPrefix(k), rows[k]) # "ok"
    THEN "OverflowError"
    ELSE "ok"

\* INSERT OR REPLACE INTO bot_config (key, value, ...)
Upsert(rows, rowKey, raw) ==
    [k \in DOMAIN rows \cup {rowKey} |-> IF k = rowKey THEN raw ELSE rows[k]]

\* DELETE FROM bot_config WHERE key LIKE 'pref_%'
DeletePrefRows(rows) ==
    [k \in DOMAIN rows \ PrefRows(rows) |-> rows[k]]

\* the store as a call finds it: working, raising when the connection is
\* asked for, or raising when the statement is executed on the connection
StoreStates == {"up", "connect_fails", "execute_fails"}

\* the times a store operation asks for a connection: the with block is in
\* no loop and no handler runs it again
Attempts_Retry(st) == IF st = "up" THEN 1 ELSE 2

Attempts(st) == 1

\* the with blocks entered: none when asking for the connection raised
Entered(st) == IF st = "connect_fails" THEN 0 ELSE Attempts(st)

\* the with blocks left through the exit of their context manager: every
\* block entered, whether it is left by falling off its end or by an exception
Exited_OnReturn(st) == IF st = "up" THEN Entered(st) ELSE 0

Exited(st) == Entered(st)

\* the context manager of DatabaseManager._get_connection: entering it opens
\* one connection, its exit closes one
ScopedConnection == [enter |-> 1, exit |-> 1]

\* the connections a store operation leaves open
HeldAfter(st) == Entered(st) * ScopedConnection.enter - Exited(st) * ScopedConnection.exit

\* the cache after reset_to_defaults
CacheAfterReset_Kept(c) == c

CacheAfterReset(c) == NoCache

\* the cache after set_preference: cleared once the row is written, left
\* alone when the call raised before that
CacheAfterSet_Always(c, status) == NoCache

CacheAfterSet_Kept(c, status) == c

CacheAfterSet_BeforeWrite(c, status) ==
    IF status \in {"ok", "store_error"} THEN NoCache ELSE c

CacheAfterSet(c, status) == IF status = "ok" THEN NoCache ELSE c

\* set_preference after validation: the row written and the cache cleared,
\* or nothing when the call raised
SetOutcome_InsertOnly(rows, c, key, value, status) ==
    LET taken == status = "ok" /\ ("pref_" \o key) \in DOMAIN rows
    IN  [status |-> IF taken THEN "store_error" ELSE status,
         rows |-> IF status = "ok" /\ ~taken
                  THEN Upsert(rows, "pref_" \o key, Serialize(value))
                  ELSE rows,
         cache |-> IF taken THEN c ELSE CacheAfterSet(c, status)]

SetOutcome(rows, c, key, value, status) ==
    [status |-> status,
     rows |-> IF status = "ok"
              THEN Upsert(rows, "pref_" \o key, Serialize(value))
              ELSE rows,
     cache |-> CacheAfterSet(c, status)]

\* how a set_preference call ends: the ValueError of the validation, the
\* exception of the store, or the return
SetStatus(validation, st) ==
    IF validation # "ok" THEN validation
    ELSE IF st # "up" THEN "store_error"
    ELSE "ok"

\* one set_preference call on table rows and cache c, the store being st
SetEffect(rows, c, key, value, st) ==
    SetOutcome(rows, c, key, value, SetStatus(Validate(key, value), st))

\* set_multiple_preferences: set_preference for each entry of the mapping
\* in order, from entry i on; "at" is the index of the entry that raised
\* (0 when none did)
RECURSIVE BatchEffect(_, _, _, _, _)
BatchFrom_Continue(e, batch, i, st) ==
    IF e.status # "ok"
    THEN [status |-> e.status, at |-> i,
          rows |-> BatchEffect(e.rows, e.cache, batch, i + 1, st).rows,
          cache |-> BatchEffect(e.rows, e.cache, batch, i + 1, st).cache]
    ELSE BatchEffect(e.rows, e.cache, batch, i + 1, st)

BatchFrom(e, batch, i, st) ==
    IF e.status # "ok"
    THEN [status |-> e.status, at |-> i, rows |-> e.rows, cache |-> e.cache]
    ELSE BatchEffect(e.rows, e.cache, batch, i + 1, st)

BatchEffect(rows, c, batch, i, st) ==
    IF i > Len(batch) THEN [status |-> "ok", at |-> 0, rows |-> rows, cache |-> c]
    ELSE BatchFrom(SetEffect(rows, c, batch[i].key, batch[i].value, st),
                   batch, i, st)

\* the entries of batch that reached the store when the call ended at
\* entry `at` (0: at the end of the batch)
BatchStored(batch, at) ==
    {i \in 1..(IF at = 0 THEN Len(batch) ELSE at) :
        Validate(batch[i].key, batch[i].value) = "ok"}

----------------------------------------------------------------------------
(* Observations of the calls *)

NoSnap == << >>
NoBatch == << >>

\* conns: the times the call asked the store for a connection
Call(op, key, value, batch, status, at, reads, conns, age, res, snap, stale) ==
    [op |-> op, key |-> key, value |-> value, batch |-> batch,
     status |-> status, at |-> at, reads |-> reads, conns |-> conns,
     age |-> age, res |-> res, snap |-> snap, stale |-> stale]

NoCall == Call("none", "", PyNone, NoBatch, "ok", 0, 0, 0, -1, PyNone, NoSnap, FALSE)

\* what is kept of the call before the last one
Summary(c) ==
    [op |-> c.op, key |-> c.key, value |-> c.value,
     status |-> c.status, at |-> c.at, age |-> c.age]

\* the age of the cache a call finds: -1 when there is none
CacheAge == IF DOMAIN cache # {} /\ cacheTs # NoTimestamp THEN now - cacheTs ELSE -1

----------------------------------------------------------------------------
(* Bounds of the model *)

\* the clock shows day*DaySeconds + slot*SlotSeconds for day in 0..MaxDays
\* and slot in 0..MaxSlots: instants inside and outside the cache window,
\* on the day of a load and on later days
MaxDays == 1
MaxSlots == 2
SlotSeconds == 40

Instants ==
    {day * DaySeconds + slot * SlotSeconds : day \in 0..MaxDays, slot \in 0..MaxSlots}

\* the longest mapping passed to set_multiple_preferences
MaxBatch == 2

\* the most identifiers in a timezone database
MaxZones == 3

\* rows of other components in the shared table
ForeignRows ==
    [k \in {"bot_name", "prefetch_limit"} |->
        IF k = "bot_name" THEN "signal-bot" ELSE "10"]

EmptyTable == << >>

InitialTables ==
    {[k \in S |-> ForeignRows[k]] : S \in SUBSET DOMAIN ForeignRows}

Entry(key, value) == [key |-> key, value |-> value]

\* mappings of at most MaxBatch of the given entries: a dict holds a key once
BatchesOf(entries) ==
    {b \in UNION {[1..n -> entries] : n \in 1..MaxBatch} :
        \A i, j \in 1..Len(b) : i # j => b[i].key # b[j].key}

----------------------------------------------------------------------------
(* Threads sharing the instance *)

\* the threads that call the one instance; nothing in the class serialises
\* them
Threads == {1, 2}

\* a call in progress: pc is the statement the thread executes next, local
\* the `preferences` dict of get_all_preferences; alone is FALSE once
\* another call was in progress at any moment of this one
Frame(pc, op, key, value, local, alone) ==
    [pc |-> pc, op |-> op, key |-> key, value |-> value, local |-> local,
     alone |-> alone]

IdleFrame == Frame("idle", "none", "", PyNone, NoSnap, TRUE)

NoFrames == [t \in Threads |-> IdleFrame]

----------------------------------------------------------------------------
(* The tables of the test data generator *)

\* groups, users and messages are the sets of their rows, by the columns
\* the generator selects on; attachments counts the rows of every
\* message_id; unique tells whether the schema, which the generator does not
\* create, lets an attachment_id appear once only; runs counts the
\* generators constructed.  Here: no row at all.
NoTestData ==
    [groups |-> {}, users |-> {}, messages |-> {}, attachments |-> << >>,
     unique |-> FALSE, runs |-> 0]

----------------------------------------------------------------------------
(* The operations of one service instance *)

InitService(tables) ==
    /\ bot_config \in tables
    /\ cache = NoCache
    /\ cacheTs = NoTimestamp
    /\ now = 0
    /\ store = "up"
    /\ open = 0
    /\ last = NoCall
    /\ prev = Summary(NoCall)
    /\ ext = FALSE
    /\ frames = NoFrames
    /\ overlapped = FALSE

InitWith(tables) == InitService(tables) /\ test_db = NoTestData

\* what get_all_preferences returns and leaves in the cache
Snapshot(hit) == IF hit THEN cache ELSE Reload(bot_config)

\* get_all_preferences returning snap, from the cache or from the table
Loaded(hit, snap, st) ==
    [status |-> "ok", snap |-> snap, cache |-> snap,
     ts |-> IF hit THEN cacheTs ELSE now,
     reads |-> IF hit THEN 0 ELSE 1,
     conns |-> IF hit THEN 0 ELSE Attempts(st),
     held |-> IF hit THEN 0 ELSE HeldAfter(st)]

\* get_all_preferences raising inside the with block: the two assignments
\* after the block are not reached
FailedLoad(st) ==
    [status |-> "store_error", snap |-> NoSnap, cache |-> cache, ts |-> cacheTs,
     reads |-> 1, conns |-> Attempts(st), held |-> HeldAfter(st)]

\* get_all_preferences raising in the loop over the rows, inside the with
\* block
RaisedLoad(st, status) == [FailedLoad(st) EXCEPT !.status = status]

\* one run of get_all_preferences
Read(hit) ==
    IF ~hit /\ store # "up" THEN FailedLoad(store)
    ELSE IF ~hit /\ ReloadError(bot_config) # "ok"
    THEN RaisedLoad(store, ReloadError(bot_config))
    ELSE Loaded(hit, Snapshot(hit), store)

get_all_preferences(op) ==
    \E hit \in {CacheHit(cache, cacheTs, now)} :
    \E r \in {Read(hit)} :
        /\ cache' = r.cache
        /\ cacheTs' = r.ts
        /\ open' = open + r.held
        /\ last' = Call(op, "", PyNone, NoBatch, r.status, 0, r.reads,
                        r.conns, CacheAge, PyNone, r.snap, ext)
        /\ prev' = Summary(last)
        /\ ext' = FALSE
        /\ UNCHANGED <<frames, overlapped, test_db, bot_config, now, store>>

\* preferences.get(key, self.DEFAULT_PREFERENCES.get(key))
Lookup(snap, key) ==
    IF key \in DOMAIN snap THEN snap[key]
    ELSE IF key \in DOMAIN DEFAULT_PREFERENCES THEN DEFAULT_PREFERENCES[key]
    ELSE PyNone

get_preference(key) ==
    \E hit \in {CacheHit(cache, cacheTs, now)} :
    \E r \in {Read(hit)} :
        /\ cache' = r.cache
        /\ cacheTs' = r.ts
        /\ open' = open + r.held
        /\ last' = Call("get_preference", key, PyNone, NoBatch, r.status, 0,
                        r.reads, r.conns, CacheAge,
                        IF r.status = "ok" THEN Lookup(r.snap, key) ELSE PyNone,
                        NoSnap, ext)
        /\ prev' = Summary(last)
        /\ ext' = FALSE
        /\ UNCHANGED <<frames, overlapped, test_db, bot_config, now, store>>

\* the store is reached once the validation has passed
ReachedStore(status) == status \in {"ok", "store_error"}

set_preference(key, value) ==
    \E e \in {SetEffect(bot_config, cache, key, value, store)} :
        /\ bot_config' = e.rows
        /\ cache' = e.cache
        /\ open' = open + (IF ReachedStore(e.status) THEN HeldAfter(store) ELSE 0)
        /\ last' = Call("set_preference", key, value, NoBatch, e.status, 0, 0,
                        IF ReachedStore(e.status) THEN Attempts(store) ELSE 0,
                        CacheAge, PyNone, NoSnap, ext)
        /\ prev' = Summary(last)
        /\ ext' = FALSE
        /\ UNCHANGED <<frames, overlapped, test_db, cacheTs, now, store>>

set_multiple_preferences(op, batch) ==
    \E e \in {BatchEffect(bot_config, cache, batch, 1, store)} :
    \E stored \in {Cardinality(BatchStored(batch, e.at))} :
        /\ bot_config' = e.rows
        /\ cache' = e.cache
        /\ open' = open + stored * HeldAfter(store)
        /\ last' = Call(op, "", PyNone, batch, e.status, e.at, 0,
                        stored * Attempts(store), CacheAge, PyNone, NoSnap, ext)
        /\ prev' = Summary(last)
        /\ ext' = FALSE
        /\ UNCHANGED <<frames, overlapped, test_db, cacheTs, now, store>>

import_preferences(batch) == set_multiple_preferences("import_preferences", batch)

reset_to_defaults ==
    /\ bot_config' = IF store = "up" THEN DeletePrefRows(bot_config) ELSE bot_config
    /\ cache' = IF store = "up" THEN CacheAfterReset(cache) ELSE cache
    /\ open' = open + HeldAfter(store)
    /\ last' = Call("reset_to_defaults", "", PyNone, NoBatch,
                    IF store = "up" THEN "ok" ELSE "store_error", 0, 0,
                    Attempts(store), CacheAge, PyNone, NoSnap, ext)
    /\ prev' = Summary(last)
    /\ ext' = FALSE
    /\ UNCHANGED <<frames, overlapped, test_db, cacheTs, now, store>>

\* the orders in which the rows that added a key of their own to the
\* snapshot may have been fetched
ExtraOrders(snap) ==
    LET extras == DOMAIN snap \ KnownKeys
    IN  {q \in [1..Cardinality(extras) -> extras] :
            \A i, j \in 1..Cardinality(extras) : i # j => q[i] # q[j]}

\* the items of an exported snapshot in the order of the dict: the keys of
\* DEFAULT_PREFERENCES first, then the keys the rows added
SnapshotItems(snap, extras) ==
    [i \in 1..(Len(SchemaKeys) + Len(extras)) |->
        IF i <= Len(SchemaKeys)
        THEN Entry(SchemaKeys[i], snap[SchemaKeys[i]])
        ELSE Entry(extras[i - Len(SchemaKeys)], snap[extras[i - Len(SchemaKeys)]])]

\* import_preferences(export_preferences()): the snapshot get_all_preferences
\* returns is passed to set_multiple_preferences
import_exported ==
    \E hit \in {CacheHit(cache, cacheTs, now)} :
    \E r \in {Read(hit)} :
    \E extras \in ExtraOrders(r.snap) :
    \E e \in {IF r.status = "ok"
              THEN BatchEffect(bot_config, r.cache,
                               SnapshotItems(r.snap, extras), 1, store)
              ELSE [status |-> r.status, at |-> 0, rows |-> bot_config,
                    cache |-> r.cache]} :
        /\ bot_config' = e.rows
        /\ cache' = e.cache
        /\ cacheTs' = r.ts
        /\ open' = open + r.held
        /\ last' = [exported |-> r.snap] @@
                   Call("import_preferences", "", PyNone, NoBatch, e.status,
                        e.at, r.reads, r.conns, CacheAge, PyNone, NoSnap, ext)
        /\ prev' = Summary(last)
        /\ ext' = FALSE
        /\ UNCHANGED <<now, store, frames, overlapped, test_db>>

\* the caller of get_all_preferences or export_preferences assigns to a key
\* of the mapping it was just handed: both return statements hand out the
\* dict that self._preferences_cache refers to, not a copy of it
caller_assigns(key, value) ==
    /\ last.op \in {"get_all_preferences", "export_preferences"}
    /\ last.status = "ok"
    /\ cache' = [k \in DOMAIN cache \cup {key} |->
                    IF k = key THEN value ELSE cache[k]]
    /\ last' = Call("caller_assigns", key, value, NoBatch, "ok", 0, 0, 0,
                    CacheAge, PyNone, NoSnap, ext)
    /\ prev' = Summary(last)
    /\ UNCHANGED <<bot_config, cacheTs, now, store, open, ext, frames,
                   overlapped, test_db>>

\* __init__ of a new instance over the timezone database all_timezones
init_service(all_timezones) ==
    /\ cache' = NoCache
    /\ cacheTs' = NoTimestamp
    /\ open' = 0
    /\ last' = [all_timezones |-> all_timezones,
                options |-> get_timezone_options(all_timezones)] @@
               Call("__init__", "", PyNone, NoBatch, "ok", 0, 0, 0, -1, PyNone,
                    NoSnap, ext)
    /\ prev' = Summary(last)
    /\ ext' = FALSE
    /\ UNCHANGED <<frames, overlapped, test_db, bot_config, now, store>>

----------------------------------------------------------------------------
(* The operations statement by statement, for threads that interleave *)

AllIdle == \A t \in Threads : frames[t].pc = "idle"

Alone(t) == \A u \in Threads \ {t} : frames[u].pc = "idle"

\* thread t enters a call while the other threads are where they are
Entering(t, frame) ==
    [u \in Threads |->
        IF u = t THEN frame
        ELSE IF frames[u].pc = "idle" THEN frames[u]
        ELSE [frames[u] EXCEPT !.alone = FALSE]]

\* thread t moves to statement pc of its call
Moving(t, pc, local) ==
    [frames EXCEPT ![t] = [@ EXCEPT !.pc = pc, !.local = local]]

\* the call of thread t ends with status and result res.  truth is what
\* the table holds for the key at that moment.
Completes(t, status, res) ==
    /\ frames' = [frames EXCEPT ![t] = IdleFrame]
    /\ last' = [alone |-> frames[t].alone, overlap |-> overlapped,
                truth |-> Lookup(Reload(bot_config), frames[t].key)] @@
               Call(frames[t].op, frames[t].key, frames[t].value, NoBatch,
                    status, 0, 0, 0, -1, res, NoSnap, FALSE)
    /\ prev' = Summary(last)

\* get_preference -> get_all_preferences, "Check cache first": the test of
\* the two fields and of the age
thread_check(t, key) ==
    /\ frames[t].pc = "idle"
    /\ frames' = Entering(t, Frame(IF CacheHit(cache, cacheTs, now)
                                   THEN "return_cache" ELSE "load",
                                   "get_preference", key, PyNone, NoSnap,
                                   Alone(t)))
    /\ overlapped' = (overlapped \/ ~Alone(t))
    /\ UNCHANGED <<bot_config, cache, cacheTs, now, store, open, last, prev,
                   ext, test_db>>

\* "return self._preferences_cache": the field is read again, and
\* get_preference calls .get on what it finds there (None has no .get)
thread_return_cache(t) ==
    /\ frames[t].pc = "return_cache"
    /\ IF cache = NoCache
       THEN Completes(t, "AttributeError", PyNone)
       ELSE Completes(t, "ok", Lookup(cache, frames[t].key))
    /\ UNCHANGED <<bot_config, cache, cacheTs, now, store, open, ext,
                   overlapped, test_db>>

\* "Load from database": the defaults and the rows of one SELECT go into
\* the local dict
thread_load(t) ==
    /\ frames[t].pc = "load"
    /\ IF store = "up" /\ ReloadError(bot_config) = "ok"
       THEN /\ frames' = Moving(t, "fill", Reload(bot_config))
            /\ UNCHANGED <<last, prev>>
       ELSE Completes(t, IF store # "up" THEN "store_error"
                         ELSE ReloadError(bot_config), PyNone)
    /\ UNCHANGED <<bot_config, cache, cacheTs, now, store, open, ext,
                   overlapped, test_db>>

\* "self._preferences_cache = preferences"
thread_fill(t) ==
    /\ frames[t].pc = "fill"
    /\ cache' = frames[t].local
    /\ frames' = Moving(t, "stamp", frames[t].local)
    /\ UNCHANGED <<bot_config, cacheTs, now, store, open, last, prev, ext,
                   overlapped, test_db>>

\* "self._cache_timestamp = datetime.now()" and the return of the local
\* dict, from which get_preference takes the key
thread_stamp(t) ==
    /\ frames[t].pc = "stamp"
    /\ cacheTs' = now
    /\ Completes(t, "ok", Lookup(frames[t].local, frames[t].key))
    /\ UNCHANGED <<bot_config, cache, now, store, open, ext, overlapped,
                   test_db>>

\* set_preference up to the end of its with block: the validation and the
\* INSERT OR REPLACE
thread_write(t, key, value) ==
    /\ frames[t].pc = "idle"
    /\ \E status \in {SetStatus(Validate(key, value), store)} :
        /\ frames' = Entering(t, Frame(IF status = "ok" THEN "clear" ELSE "raise",
                                       "set_preference", key, value, NoSnap,
                                       Alone(t)))
        /\ bot_config' = IF status = "ok"
                         THEN Upsert(bot_config, "pref_" \o key, Serialize(value))
                         ELSE bot_config
    /\ overlapped' = (overlapped \/ ~Alone(t))
    /\ UNCHANGED <<cache, cacheTs, now, store, open, last, prev, ext, test_db>>

\* set_preference leaving by the exception of the validation or of the store
thread_raise(t) ==
    /\ frames[t].pc = "raise"
    /\ Completes(t, SetStatus(Validate(frames[t].key, frames[t].value), store),
                 PyNone)
    /\ UNCHANGED <<bot_config, cache, cacheTs, now, store, open, ext,
                   overlapped, test_db>>

\* "Clear cache" and "return True"
thread_clear(t) ==
    /\ frames[t].pc = "clear"
    /\ cache' = CacheAfterSet(cache, "ok")
    /\ Completes(t, "ok", PyNone)
    /\ UNCHANGED <<bot_config, cacheTs, now, store, open, ext, overlapped,
                   test_db>>

----------------------------------------------------------------------------
(* Dates, times and timezones *)

\* a datetime: the fields of the wall clock and the name of the zone of its
\* tzinfo, "" when the datetime is naive
Datetime(year, month, day, hour, minute, tz) ==
    [year |-> year, month |-> month, day |-> day, hour |-> hour,
     minute |-> minute, tz |-> tz]

NoDatetime == Datetime(0, 0, 0, 0, 0, "")

\* decimal text of n, padded with zeros on the left to the given width
RECURSIVE ZeroPad(_, _)
ZeroPad(str, width) == IF Len(str) >= width THEN str ELSE ZeroPad("0" \o str, width)

\* the hour of the 12-hour clock
Hour12(hour) == IF hour % 12 = 0 THEN 12 ELSE hour % 12

\* strftime: the text of one directive
Directive(c, dt) ==
    CASE c = "Y" -> ZeroPad(NatToStr(dt.year), 4)
      [] c = "m" -> ZeroPad(NatToStr(dt.month), 2)
      [] c = "d" -> ZeroPad(NatToStr(dt.day), 2)
      [] c = "H" -> ZeroPad(NatToStr(dt.hour), 2)
      [] c = "I" -> ZeroPad(NatToStr(Hour12(dt.hour)), 2)
      [] c = "M" -> ZeroPad(NatToStr(dt.minute), 2)
      [] c = "p" -> IF dt.hour < 12 THEN "AM" ELSE "PM"

\* dt.strftime(fmt): every directive replaced, every other character kept
RECURSIVE Strftime(_, _)
Strftime(fmt, dt) ==
    IF Len(fmt) = 0 THEN ""
    ELSE IF CharAt(fmt, 1) = "%" /\ Len(fmt) >= 2
         THEN Directive(CharAt(fmt, 2), dt) \o Strftime(SubSeq(fmt, 3, Len(fmt)), dt)
         ELSE CharAt(fmt, 1) \o Strftime(SubSeq(fmt, 2, Len(fmt)), dt)

\* format_date, format_map
format_map ==
    [name \in { "YYYY-MM-DD", "DD/MM/YYYY", "MM/DD/YYYY", "DD.MM.YYYY",
                "YYYY(nen)MM(gatsu)DD(nichi)" } |->
        CASE name = "YYYY-MM-DD" -> "%Y-%m-%d"
          [] name = "DD/MM/YYYY" -> "%d/%m/%Y"
          [] name = "MM/DD/YYYY" -> "%m/%d/%Y"
          [] name = "DD.MM.YYYY" -> "%d.%m.%Y"
          [] name = "YYYY(nen)MM(gatsu)DD(nichi)" -> "%Y(nen)%m(gatsu)%d(nichi)"]

\* a value hash() raises TypeError for: a dict lookup of it raises
Unhashable(v) == v.t = "list"

\* format_map.get(date_format, '%Y-%m-%d')
DateFmt(date_format) ==
    IF date_format.t = "str" /\ date_format.s \in DOMAIN format_map
    THEN format_map[date_format.s]
    ELSE "%Y-%m-%d"

\* format_date, the choice of time_fmt
TimeFmt(time_format) ==
    IF PyEq(time_format, PyStr("12h")) THEN "%I:%M %p" ELSE "%H:%M"

\* format_date, full_format
FullFormat(date_format, time_format, include_time) ==
    IF include_time
    THEN DateFmt(date_format) \o " " \o TimeFmt(time_format)
    ELSE DateFmt(date_format)

\* format_date once the two preferences are read
FormatOutcome(date_format, time_format, dt, include_time) ==
    IF Unhashable(date_format)
    THEN [status |-> "TypeError", res |-> PyNone]
    ELSE [status |-> "ok",
          res |-> PyStr(Strftime(FullFormat(date_format, time_format,
                                            include_time), dt))]

\* get_date_format and get_time_format read through get_preference: the
\* first call reloads when the cache is not usable, the second is served
\* from the cache the first left
format_date(dt, include_time) ==
    \E hit \in {CacheHit(cache, cacheTs, now)} :
    \E r \in {Read(hit)} :
    \E o \in {IF r.status = "ok"
              THEN FormatOutcome(Lookup(r.snap, "date_format"),
                                 Lookup(r.snap, "time_format"), dt, include_time)
              ELSE [status |-> r.status, res |-> PyNone]} :
        /\ cache' = r.cache
        /\ cacheTs' = r.ts
        /\ open' = open + r.held
        /\ last' = [dt |-> dt] @@
                   Call("format_date", "", PyBool(include_time), NoBatch,
                        o.status, 0, r.reads, r.conns, CacheAge, o.res,
                        r.snap, ext)
        /\ prev' = Summary(last)
        /\ ext' = FALSE
        /\ UNCHANGED <<frames, overlapped, test_db, bot_config, now, store>>

\* pytz.timezone(name): [ok |-> FALSE] stands for the exception raised for
\* a name the timezone database does not hold (UnknownTimeZoneError) or for
\* a value that is no name at all
PytzTimezone(name) ==
    IF name.t = "str" /\ name.s \in SeqRange(AllTimezones)
    THEN [ok |-> TRUE, zone |-> name.s]
    ELSE [ok |-> FALSE, zone |-> ""]

\* minutes east of UTC, for the zones of the sample that keep one offset
\* all year
UtcOffset(zone) ==
    CASE zone \in {"UTC", "GMT", "Zulu"} -> 0
      [] zone = "Asia/Tokyo" -> 540
      [] zone \in {"Asia/Shanghai", "Asia/Hong_Kong", "Asia/Singapore"} -> 480
      [] zone = "Etc/GMT+1" -> 0 - 60

DayMinutes == 1440

\* the wall clock moved by delta minutes; the datetimes of the model lie
\* more than a day inside their month
ShiftMinutes(dt, delta) ==
    LET total == dt.day * DayMinutes + dt.hour * 60 + dt.minute + delta
    IN  [dt EXCEPT !.day = total \div DayMinutes,
                   !.hour = (total % DayMinutes) \div 60,
                   !.minute = total % 60]

\* from_timezone.localize(dt): the naive wall clock taken as that of zone
Localize(dt, zone) == [dt EXCEPT !.tz = zone]

\* dt.astimezone(zone): the same instant on the wall clock of zone
AsTimezone(dt, zone) ==
    [ShiftMinutes(dt, UtcOffset(zone) - UtcOffset(dt.tz)) EXCEPT !.tz = zone]

\* convert_to_user_timezone once the timezone preference is read
ConvertOutcome(user_tz_name, dt, from_tz) ==
    IF dt.tz = "" /\ ~PytzTimezone(PyStr(from_tz)).ok
    THEN [status |-> "UnknownTimeZoneError", out |-> NoDatetime]
    ELSE IF ~PytzTimezone(user_tz_name).ok
    THEN [status |-> "UnknownTimeZoneError", out |-> NoDatetime]
    ELSE [status |-> "ok",
          out |-> AsTimezone(IF dt.tz = "" THEN Localize(dt, from_tz) ELSE dt,
                             PytzTimezone(user_tz_name).zone)]

convert_to_user_timezone(dt, from_tz) ==
    \E hit \in {CacheHit(cache, cacheTs, now)} :
    \E r \in {Read(hit)} :
    \E o \in {IF r.status = "ok"
              THEN ConvertOutcome(Lookup(r.snap, "timezone"), dt, from_tz)
              ELSE [status |-> r.status, out |-> NoDatetime]} :
        /\ cache' = r.cache
        /\ cacheTs' = r.ts
        /\ open' = open + r.held
        /\ last' = [dt |-> dt, from_tz |-> from_tz, out |-> o.out] @@
                   Call("convert_to_user_timezone", "", PyNone, NoBatch,
                        o.status, 0, r.reads, r.conns, CacheAge, PyNone,
                        r.snap, ext)
        /\ prev' = Summary(last)
        /\ ext' = FALSE
        /\ UNCHANGED <<frames, overlapped, test_db, bot_config, now, store>>

----------------------------------------------------------------------------
(* Metadata for the settings pages *)

\* _categorize_preference, categories, in the order of the dict
categories ==
    << [name |-> "Display",
        keys |-> <<"timezone", "date_format", "time_format", "language">>],
       [name |-> "Messages",
        keys |-> <<"messages_per_page", "show_message_previews",
                   "compact_message_view", "show_deleted_messages",
                   "filter_persist_navigation">>],
       [name |-> "Notifications",
        keys |-> <<"show_reaction_notifications", "notification_sound",
                   "auto_refresh_interval", "dashboard_refresh_rate">>],
       [name |-> "AI & Automation",
        keys |-> <<"enable_ai_features", "default_ai_provider",
                   "enable_auto_reactions", "default_emoji_mode">>],
       [name |-> "Advanced",
        keys |-> <<"show_unmonitored_groups", "activity_chart_style">>] >>

\* _categorize_preference: the first category that lists key
categorize_preference(key) ==
    LET listing == {i \in 1..Len(categories) : key \in SeqRange(categories[i].keys)}
    IN  IF listing = {} THEN "Other"
        ELSE categories[CHOOSE i \in listing : \A j \in listing : i <= j].name

\* _get_preference_description, descriptions
descriptions ==
    [key \in KnownKeys |->
        CASE key = "timezone" -> "Your local timezone for displaying dates and times"
          [] key = "date_format" -> "How dates are displayed throughout the application"
          [] key = "time_format" -> "12-hour (AM/PM) or 24-hour time display"
          [] key = "messages_per_page" -> "Number of messages to show per page"
          [] key = "auto_refresh_interval" -> "How often to refresh data (0 = disabled)"
          [] key = "show_message_previews" -> "Show message text previews in lists"
          [] key = "show_reaction_notifications" ->
                "Display notifications for emoji reactions"
          [] key = "enable_auto_reactions" ->
                "Automatically send emoji reactions to messages"
          [] key = "default_emoji_mode" -> "How emojis are selected for auto-reactions"
          [] key = "language" -> "Interface language"
          [] key = "show_unmonitored_groups" -> "Display unmonitored groups in lists"
          [] key = "compact_message_view" -> "Use compact spacing in message lists"
          [] key = "enable_ai_features" -> "Enable AI-powered features"
          [] key = "default_ai_provider" -> "Default AI provider for analysis"
          [] key = "activity_chart_style" -> "Visual style for activity charts"
          [] key = "dashboard_refresh_rate" ->
                "Dashboard auto-refresh interval (seconds)"
          [] key = "filter_persist_navigation" ->
                "Keep filters when navigating between pages"
          [] key = "show_deleted_messages" ->
                "Show deleted messages with strikethrough"
          [] key = "notification_sound" -> "Play sound for new notifications"]

\* _get_preference_description
get_preference_description(key) ==
    IF key \in DOMAIN descriptions THEN descriptions[key]
    ELSE "Configure " \o Title(StrReplace(key, "_", " "))

\* self.PREFERENCE_OPTIONS.get(key): None for a key without a list
NoOptions == << >>

\* get_preference_metadata, the entry of one key; current is what
\* get_preference(key) returned
MetaEntry_CurrentDefault(key, current) ==
    [default |-> DEFAULT_PREFERENCES[key],
     current |-> DEFAULT_PREFERENCES[key],
     type |-> DEFAULT_PREFERENCES[key].t,
     options |-> IF key \in DOMAIN PREFERENCE_OPTIONS
                 THEN PREFERENCE_OPTIONS[key] ELSE NoOptions,
     category |-> categorize_preference(key),
     description |-> get_preference_description(key)]

MetaEntry(key, current) ==
    [default |-> DEFAULT_PREFERENCES[key],
     current |-> current,
     type |-> DEFAULT_PREFERENCES[key].t,
     options |-> IF key \in DOMAIN PREFERENCE_OPTIONS
                 THEN PREFERENCE_OPTIONS[key] ELSE NoOptions,
     category |-> categorize_preference(key),
     description |-> get_preference_description(key)]

NoMeta == << >>

\* get_preference_metadata: get_preference for every key of
\* DEFAULT_PREFERENCES; the first call reloads when the cache is not usable,
\* the others are served from the cache the first left
get_preference_metadata ==
    \E hit \in {CacheHit(cache, cacheTs, now)} :
    \E r \in {Read(hit)} :
        /\ cache' = r.cache
        /\ cacheTs' = r.ts
        /\ open' = open + r.held
        /\ last' = [meta |-> IF r.status = "ok"
                             THEN [key \in DOMAIN DEFAULT_PREFERENCES |->
                                      MetaEntry(key, Lookup(r.snap, key))]
                             ELSE NoMeta] @@
                   Call("get_preference_metadata", "", PyNone, NoBatch,
                        r.status, 0, r.reads, r.conns, CacheAge, PyNone,
                        NoSnap, ext)
        /\ prev' = Summary(last)
        /\ ext' = FALSE
        /\ UNCHANGED <<frames, overlapped, test_db, bot_config, now, store>>

----------------------------------------------------------------------------
(* The environment: the clock, another instance writing the table, and  *)
(* the store failing and recovering                                      *)

Tick(t) ==
    /\ t > now
    /\ now' = t
    /\ UNCHANGED <<frames, overlapped, test_db, bot_config, cache, cacheTs, store, open, last, prev, ext>>

\* set_preference run to completion on another instance over the same table
OtherInstanceSet(key, value) ==
    \E e \in {SetEffect(bot_config, NoCache, key, value, store)} :
        /\ e.status = "ok"
        /\ e.rows # bot_config
        /\ bot_config' = e.rows
        /\ ext' = TRUE
        /\ UNCHANGED <<frames, overlapped, test_db, cache, cacheTs, now, store, open, last, prev>>

\* the store starts or stops raising
StoreBecomes(st) ==
    /\ st # store
    /\ store' = st
    /\ UNCHANGED <<frames, overlapped, test_db, bot_config, cache, cacheTs, now, open, last, prev, ext>>

----------------------------------------------------------------------------
(* The service under its callers, the clock and another writer: the cache *)

OpKeys == {"time_format"}
OpValues == {PyStr("12h"), PyStr("24h")}

Init == InitWith({EmptyTable})

Next ==
    \/ get_all_preferences("get_all_preferences")
    \/ \E key \in OpKeys : get_preference(key)
    \/ \E key \in OpKeys, value \in OpValues : set_preference(key, value)
    \/ reset_to_defaults
    \/ \E t \in Instants : Tick(t)
    \/ \E key \in OpKeys, value \in OpValues : OtherInstanceSet(key, value)

Spec == Init /\ [][Next]_vars

----------------------------------------------------------------------------
(* The service over a table shared with other components: the writes *)

\* the calls of the callers: an accepted and a rejected value of a key
\* with an allowed list, a value of a key without one, an unknown key
WriteEntries ==
    { Entry("time_format", PyStr("12h")), Entry("time_format", PyStr("6h")),
      Entry("show_message_previews", PyBool(FALSE)),
      Entry("favorite_color", PyStr("blue")) }

Batches == BatchesOf(WriteEntries)

InitWrite == InitWith(InitialTables)

NextWrite ==
    \/ get_all_preferences("get_all_preferences")
    \/ \E e \in WriteEntries : set_preference(e.key, e.value)
    \/ \E batch \in Batches : set_multiple_preferences("set_multiple_preferences", batch)
    \/ \E batch \in Batches : import_preferences(batch)
    \/ reset_to_defaults

SpecWrite == InitWrite /\ [][NextWrite]_vars

----------------------------------------------------------------------------
(* One write and one read, over the whole schema *)

\* every value some key lists as an option, both booleans, and values no
\* key should accept
OptionValues ==
    UNION {SeqRange(PREFERENCE_OPTIONS[k]) : k \in DOMAIN PREFERENCE_OPTIONS}

ProbeValues ==
    { PyStr("6h"), PyStr("100"), PyStr("yes"), PyInt(7), PyFloat(50),
      PyNone, PyList("[]") }

SchemaValues == OptionValues \cup {PyBool(TRUE), PyBool(FALSE)} \cup ProbeValues

SchemaOpKeys == KnownKeys \cup {"favorite_color"}

InitSchema == InitWith(InitialTables)

NextSchema ==
    \/ /\ last.op = "none"
       /\ \E key \in SchemaOpKeys, value \in SchemaValues : set_preference(key, value)
    \/ /\ prev.op = "none"
       /\ \E key \in SchemaOpKeys : get_preference(key)

SpecSchema == InitSchema /\ [][NextSchema]_vars

----------------------------------------------------------------------------
(* The service alone over a table that starts empty *)

\* the calls of the callers: for a key listing strings an accepted and a
\* rejected value, for a key listing integers a member of the list and the
\* boolean that compares equal to a member, for a key without a list None
OwnEntries ==
    { Entry("time_format", PyStr("12h")), Entry("time_format", PyStr("6h")),
      Entry("auto_refresh_interval", PyInt(15)),
      Entry("auto_refresh_interval", PyBool(FALSE)),
      Entry("notification_sound", PyNone) }

OwnBatches == BatchesOf(OwnEntries)

\* the keys read: the keys written, and a key no call writes
OwnKeys == {"time_format", "auto_refresh_interval", "notification_sound", "timezone"}

InitOwn == InitWith({EmptyTable})

NextOwn ==
    \/ get_all_preferences("get_all_preferences")
    \/ \E key \in OwnKeys : get_preference(key)
    \/ \E e \in OwnEntries : set_preference(e.key, e.value)
    \/ \E batch \in OwnBatches :
           set_multiple_preferences("set_multiple_preferences", batch)
    \/ reset_to_defaults

SpecOwn == InitOwn /\ [][NextOwn]_vars

----------------------------------------------------------------------------
(* Dates formatted and converted over rows of any origin *)

\* rows of the three display preferences as another writer or an earlier
\* version may have left them: listed values, a text outside the list, a
\* JSON list, a zone name the timezone database does not hold
DisplayRows ==
    [k \in {"pref_timezone", "pref_date_format", "pref_time_format"} |->
        CASE k = "pref_timezone" -> {"Asia/Tokyo", "Mars/Phobos"}
          [] k = "pref_date_format" ->
                { "YYYY-MM-DD", "DD/MM/YYYY", "MM/DD/YYYY", "DD.MM.YYYY",
                  "YYYY(nen)MM(gatsu)DD(nichi)", "DD-MM-YYYY", "[]" }
          [] k = "pref_time_format" -> {"24h", "12h", "6h"}]

DisplayTables ==
    UNION {[S -> UNION {DisplayRows[k] : k \in S}] : S \in SUBSET DOMAIN DisplayRows}

SampleTimes ==
    { Datetime(2024, 12, 25, 14, 30, ""), Datetime(2024, 1, 5, 0, 7, "") }

ConvertTimes ==
    { Datetime(2024, 12, 25, 14, 30, ""), Datetime(2024, 12, 25, 20, 30, "UTC") }

FromZones == {"UTC", "Asia/Tokyo"}

InitDisplay ==
    /\ InitWith(DisplayTables)
    /\ \A k \in DOMAIN bot_config : bot_config[k] \in DisplayRows[k]

NextDisplay ==
    \/ \E dt \in SampleTimes, include_time \in BOOLEAN : format_date(dt, include_time)
    \/ \E dt \in ConvertTimes, from_tz \in FromZones :
           convert_to_user_timezone(dt, from_tz)

SpecDisplay == InitDisplay /\ [][NextDisplay]_vars

----------------------------------------------------------------------------
(* The service over a store that fails and recovers *)

StoreEntries ==
    {Entry("time_format", PyStr("12h")), Entry("time_format", PyStr("6h"))}

\* an instant at which a cache loaded at 0 is no longer served
StoreInstants == {MaxSlots * SlotSeconds}

InitStore == InitWith({EmptyTable})

NextStore ==
    \/ get_all_preferences("get_all_preferences")
    \/ \E e \in StoreEntries : set_preference(e.key, e.value)
    \/ reset_to_defaults
    \/ \E t \in StoreInstants : Tick(t)
    \/ \E st \in StoreStates : StoreBecomes(st)

SpecStore == InitStore /\ [][NextStore]_vars

----------------------------------------------------------------------------
(* The metadata over a table that is written and reset *)

InitMeta == InitWith(InitialTables)

NextMeta ==
    \/ get_preference_metadata
    \/ \E key \in KnownKeys : get_preference(key)
    \/ \E e \in WriteEntries : set_preference(e.key, e.value)
    \/ reset_to_defaults

SpecMeta == InitMeta /\ [][NextMeta]_vars

----------------------------------------------------------------------------
(* The timezone catalog over timezone databases *)

\* identifiers a timezone database may hold: two of the common list and
\* five others, some of them differing in one character only
ZonePool ==
    {"UTC", "Asia/Tokyo", "Africa/Cairo", "Etc/GMT+1", "Etc/GMT-1", "GMT", "Zulu"}

\* the databases: lists of at most MaxZones identifiers, none twice, in any
\* order (the code does not rely on the order of pytz.all_timezones)
Databases ==
    {db \in UNION {[1..n -> ZonePool] : n \in 0..MaxZones} :
        \A i, j \in 1..Len(db) : i # j => db[i] # db[j]}

InitCatalog == InitWith({EmptyTable})

\* the instance is constructed once
NextCatalog == last.op = "none" /\ \E db \in Databases : init_service(db)

SpecCatalog == InitCatalog /\ [][NextCatalog]_vars

----------------------------------------------------------------------------
(* The page layer: every handler builds a service of its own *)

\* the two fields of an instance as __init__ leaves them
FreshInstance == [cache |-> NoCache, ts |-> NoTimestamp]

\* get_all_preferences on instance inst at time t over table rows
ReadOn(inst, rows, t, st) ==
    IF CacheHit(inst.cache, inst.ts, t)
    THEN [status |-> "ok", snap |-> inst.cache, reads |-> 0, conns |-> 0]
    ELSE IF st # "up"
    THEN [status |-> "store_error", snap |-> NoSnap, reads |-> 1,
          conns |-> Attempts(st)]
    ELSE IF ReloadError(rows) # "ok"
    THEN [status |-> ReloadError(rows), snap |-> NoSnap, reads |-> 1,
          conns |-> Attempts(st)]
    ELSE [status |-> "ok", snap |-> Reload(rows), reads |-> 1,
          conns |-> Attempts(st)]

\* BasePage.get_user_timezone: a new UserPreferencesService, get_timezone()
\* on it, and the instance is dropped when the handler returns
get_user_timezone ==
    \E r \in {ReadOn(FreshInstance, bot_config, now, store)} :
        /\ last' = Call("get_user_timezone", "timezone", PyNone, NoBatch,
                        r.status, 0, r.reads, r.conns, -1,
                        IF r.status = "ok" THEN Lookup(r.snap, "timezone")
                        ELSE PyNone,
                        NoSnap, ext)
        /\ prev' = Summary(last)
        /\ ext' = FALSE
        /\ UNCHANGED <<bot_config, cache, cacheTs, now, store, open, frames,
                       overlapped, test_db>>

\* Python's truth test of a value: None, zero, the empty string and the
\* empty list are false
Falsy(v) ==
    \/ v.t = "none"
    \/ IsNumeric(v) /\ v.n = 0 /\ v.s = ""
    \/ v.t = "str" /\ v.s = ""
    \/ v.t = "list" /\ v.s = "[]"

\* the date of the proleptic Gregorian calendar that lies the given number
\* of days after 1970-01-01
CivilFromDays(days) ==
    LET z == days + 719468
        era == z \div 146097
        doe == z - era * 146097
        yoe == (doe - doe \div 1460 + doe \div 36524 - doe \div 146096) \div 365
        doy == doe - (365 * yoe + yoe \div 4 - yoe \div 100)
        mp == (5 * doy + 2) \div 153
        month == IF mp < 10 THEN mp + 3 ELSE mp - 9
    IN  [year |-> yoe + era * 400 + (IF month <= 2 THEN 1 ELSE 0),
         month |-> month,
         day |-> doy - (153 * mp + 2) \div 5 + 1]

\* datetime.fromtimestamp(timestamp_ms / 1000, tz=timezone.utc), to the
\* minute
FromTimestamp(timestamp_ms) ==
    LET minutes == timestamp_ms \div 60000
        date == CivilFromDays(minutes \div DayMinutes)
    IN  Datetime(date.year, date.month, date.day,
                 (minutes % DayMinutes) \div 60, minutes % 60, "UTC")

UnknownTime == PyStr("Unknown time")

\* format_timestamp, the inner try: pytz.timezone and astimezone, and
\* "Fall back to UTC if timezone is invalid"
InUserZone(dt, user_timezone) ==
    IF PytzTimezone(user_timezone).ok
    THEN [status |-> "ok", dt |-> AsTimezone(dt, PytzTimezone(user_timezone).zone)]
    ELSE [status |-> "ok", dt |-> dt]

\* format_timestamp, the body of the outer try on a new service: the
\* timezone is read when none is asked for, and format_date reads the two
\* formats (from the cache when the timezone was read, else from the table)
StampBody(timestamp_ms, user_timezone, include_time, r) ==
    IF r.status # "ok" THEN [status |-> r.status, res |-> PyNone]
    ELSE LET z == InUserZone(FromTimestamp(timestamp_ms.n),
                             IF Falsy(user_timezone)
                             THEN Lookup(r.snap, "timezone")
                             ELSE user_timezone)
         IN  IF z.status # "ok" THEN [status |-> z.status, res |-> PyNone]
             ELSE FormatOutcome(Lookup(r.snap, "date_format"),
                                Lookup(r.snap, "time_format"), z.dt,
                                include_time)

\* format_timestamp, "except Exception: return 'Unknown time'"
OuterHandler_None(o) == o

OuterHandler(o) ==
    IF o.status # "ok" THEN [status |-> "ok", res |-> UnknownTime] ELSE o

\* BasePage.format_timestamp; store is the state of the store it met
format_timestamp(timestamp_ms, user_timezone, include_time) ==
    \E r \in {ReadOn(FreshInstance, bot_config, now, store)} :
    \E body \in {IF Falsy(timestamp_ms)
                 THEN [status |-> "ok", res |-> UnknownTime]
                 ELSE StampBody(timestamp_ms, user_timezone, include_time, r)} :
    \E o \in {IF Falsy(timestamp_ms) THEN body ELSE OuterHandler(body)} :
        /\ last' = [timestamp_ms |-> timestamp_ms,
                    user_timezone |-> user_timezone,
                    include_time |-> include_time,
                    store |-> store] @@
                   Call("format_timestamp", "", PyNone, NoBatch, o.status, 0,
                        IF Falsy(timestamp_ms) THEN 0 ELSE r.reads,
                        IF Falsy(timestamp_ms) THEN 0 ELSE r.conns,
                        -1, o.res,
                        IF Falsy(timestamp_ms) THEN NoSnap ELSE r.snap, ext)
        /\ prev' = Summary(last)
        /\ ext' = FALSE
        /\ UNCHANGED <<bot_config, cache, cacheTs, now, store, open, frames,
                       overlapped, test_db>>

----------------------------------------------------------------------------
(* Specification of the timestamps of the pages: format_timestamp over the *)
(* stored display preferences, with the store failing and recovering.      *)

\* None, zero, 1970-01-12 13:46:40 UTC and 1970-01-15 23:30:00 UTC
SampleStamps == {PyNone, PyInt(0), PyInt(1000000000), PyInt(1294200000)}

AskedZones == {PyNone, PyStr("Asia/Tokyo"), PyStr("Mars/Phobos")}

\* stored display preferences: a zone the database holds and one it does
\* not, a listed date format and a list, the 12-hour clock
StampRows ==
    [k \in {"pref_timezone", "pref_date_format", "pref_time_format"} |->
        CASE k = "pref_timezone" -> {"Asia/Tokyo", "Mars/Phobos"}
          [] k = "pref_date_format" -> {"DD/MM/YYYY", "[]"}
          [] k = "pref_time_format" -> {"12h"}]

InitStamp ==
    /\ InitWith(DisplayTables)
    /\ \A k \in DOMAIN bot_config : bot_config[k] \in StampRows[k]

NextStamp ==
    \/ \E timestamp_ms \in SampleStamps, user_timezone \in AskedZones,
          include_time \in BOOLEAN :
           format_timestamp(timestamp_ms, user_timezone, include_time)
    \/ \E st \in StoreStates : StoreBecomes(st)

SpecStamp == InitStamp /\ [][NextStamp]_vars

----------------------------------------------------------------------------
(* Specification of a long-lived instance next to the page layer and       *)
(* another writer, under the clock.                                        *)

PageKeys == {"timezone"}
PageValues == {PyStr("UTC"), PyStr("Asia/Tokyo")}

InitPages == InitWith({EmptyTable})

NextPages ==
    \/ \E key \in PageKeys : get_preference(key)
    \/ get_user_timezone
    \/ \E key \in PageKeys, value \in PageValues : OtherInstanceSet(key, value)
    \/ \E t \in Instants : Tick(t)

SpecPages == InitPages /\ [][NextPages]_vars

----------------------------------------------------------------------------
(* test_filter_data_generator.py: TestDataGenerator *)

\* self.test_groups, by id; test_groups[:2] are the monitored ones
test_groups == <<"TEST_GROUP_1", "TEST_GROUP_2", "TEST_GROUP_3">>
MonitoredGroups == SubSeq(test_groups, 1, 2)

\* self.test_users, by phone; the uuid of each is drawn anew by every
\* generator, and is modelled as the pair of the generator and the user
test_phones == <<"+1111111111", "+2222222222", "+3333333333">>

TestUsers(generator) ==
    {[uuid |-> <<generator, i>>, phone |-> test_phones[i]] :
        i \in 1..Len(test_phones)}

\* generate_test_messages: the first id and the messages of each scenario
FirstMessageId == 1000
TodayMessages == 4 * Len(test_phones) * Len(MonitoredGroups)
YesterdayMessages == 3 * 2 * Len(test_groups)
LastWeekMessages == 6
AttachmentMessages == 4
TimeRangeMessages == 3 + 5 + 8 + 10 + 15

MessagesPerRun ==
    TodayMessages + YesterdayMessages + LastWeekMessages + AttachmentMessages
    + TimeRangeMessages

\* the group of the message at offset off from the first id: the loops of
\* scenarios 1 and 2 go through the groups innermost, scenarios 3, 4 and 5
\* take random.choice, here one choice for each scenario of a run
MessageGroup(off, g3, g4, g5) ==
    IF off < TodayMessages
    THEN MonitoredGroups[(off % Len(MonitoredGroups)) + 1]
    ELSE IF off < TodayMessages + YesterdayMessages
    THEN test_groups[((off - TodayMessages) % Len(test_groups)) + 1]
    ELSE IF off < TodayMessages + YesterdayMessages + LastWeekMessages
    THEN g3
    ELSE IF off < TodayMessages + YesterdayMessages + LastWeekMessages
                  + AttachmentMessages
    THEN g4
    ELSE g5

GeneratedMessages(g3, g4, g5) ==
    {[id |-> FirstMessageId + off, group_id |-> MessageGroup(off, g3, g4, g5)] :
        off \in 0..(MessagesPerRun - 1)}

\* the messages of scenario 4, each inserted with one attachment row whose
\* attachment_id is ATTACH_<message id>
AttachmentIds ==
    LET first == FirstMessageId + TodayMessages + YesterdayMessages
                 + LastWeekMessages
    IN  first..(first + AttachmentMessages - 1)

\* clean_test_data: DELETE FROM messages and FROM groups by the ids of the
\* test groups, DELETE FROM users by the phones of the test users, commit
clean_rows(db) ==
    [db EXCEPT !.messages = {m \in @ : m.group_id \notin SeqRange(test_groups)},
               !.groups = @ \ SeqRange(test_groups),
               !.users = {u \in @ : u.phone \notin SeqRange(test_phones)}]

\* create_test_groups_and_users: INSERT OR REPLACE of every group and user,
\* commit
create_rows(db, generator) ==
    [db EXCEPT !.groups = @ \cup SeqRange(test_groups),
               !.users = @ \cup TestUsers(generator)]

\* the INSERT INTO attachments raising IntegrityError: the attachment_id is
\* there already and the schema allows it once
AttachmentConflict(db) ==
    db.unique /\ AttachmentIds \cap DOMAIN db.attachments # {}

\* generate_test_messages run to its commit
generate_rows(db, g3, g4, g5) ==
    [db EXCEPT !.messages = @ \cup GeneratedMessages(g3, g4, g5),
               !.attachments =
                   [i \in DOMAIN @ \cup AttachmentIds |->
                       (IF i \in DOMAIN @ THEN @[i] ELSE 0)
                       + (IF i \in AttachmentIds THEN 1 ELSE 0)]]

\* run() of a generator: clean, create, generate; an exception in generate
\* is caught, the inserts since the last commit are rolled back, and run
\* returns
run_rows(db, generator, g3, g4, g5) ==
    LET created == create_rows(clean_rows(db), generator)
    IN  IF AttachmentConflict(created)
        THEN [status |-> "IntegrityError", db |-> created]
        ELSE [status |-> "ok", db |-> generate_rows(created, g3, g4, g5)]

\* the most generators run one after another
MaxRuns == 3

\* TestDataGenerator().run(), as __main__ and setUpClass of the regression
\* tests start it
generator_run(g3, g4, g5) ==
    /\ test_db.runs < MaxRuns
    /\ \E r \in {run_rows(test_db, test_db.runs + 1, g3, g4, g5)} :
        /\ test_db' = [r.db EXCEPT !.runs = @ + 1]
        /\ last' = Call("TestDataGenerator.run", "", PyNone, NoBatch, r.status,
                        0, 0, 0, -1, PyNone, NoSnap, FALSE)
    /\ prev' = Summary(last)
    /\ UNCHANGED <<bot_config, cache, cacheTs, now, store, open, ext, frames,
                   overlapped>>

\* TestDataGenerator().clean_test_data()
clean_test_data ==
    /\ test_db.runs < MaxRuns
    /\ test_db' = [clean_rows(test_db) EXCEPT !.runs = @ + 1]
    /\ last' = Call("TestDataGenerator.clean_test_data", "", PyNone, NoBatch,
                    "ok", 0, 0, 0, -1, PyNone, NoSnap, FALSE)
    /\ prev' = Summary(last)
    /\ UNCHANGED <<bot_config, cache, cacheTs, now, store, open, ext, frames,
                   overlapped>>

----------------------------------------------------------------------------
(* Specification of the test data generator run again and again over a     *)
(* database that holds rows of its own: the schema of the attachments      *)
(* table is not the generator's, so both kinds of schema are started from. *)

\* a group, a user and a message that are no test data
OwnData ==
    [NoTestData EXCEPT !.groups = {"GROUP_A"},
                       !.users = {[uuid |-> <<0, 1>>, phone |-> "+4915100000"]},
                       !.messages = {[id |-> 1, group_id |-> "GROUP_A"]},
                       !.attachments = [i \in {1} |-> 1]]

InitGenerator ==
    /\ InitService({EmptyTable})
    /\ \E unique \in BOOLEAN, db \in {NoTestData, OwnData} :
           test_db = [db EXCEPT !.unique = unique]

NextGenerator ==
    \/ \E g3 \in SeqRange(test_groups), g4, g5 \in SeqRange(MonitoredGroups) :
           generator_run(g3, g4, g5)
    \/ clean_test_data

SpecGenerator == InitGenerator /\ [][NextGenerator]_vars

----------------------------------------------------------------------------
(* Specification of export and import on a table only the service wrote *)

\* values of keys with an allowed list, and booleans and strings given to
\* keys without one
RoundEntries ==
    { Entry("time_format", PyStr("12h")),
      Entry("messages_per_page", PyInt(25)),
      Entry("notification_sound", PyBool(FALSE)),
      Entry("notification_sound", PyStr("null")),
      Entry("show_message_previews", PyStr("off")) }

InitRound == InitWith({EmptyTable})

NextRound ==
    \/ \E e \in RoundEntries : set_preference(e.key, e.value)
    \/ get_all_preferences("export_preferences")
    \/ import_exported
    \/ reset_to_defaults

SpecRound == InitRound /\ [][NextRound]_vars

----------------------------------------------------------------------------
(* Specification of a caller that changes the mapping it was handed *)

AliasKeys == {"time_format", "scratch"}
AliasValues == {PyStr("12h"), PyStr("bogus")}

InitAlias == InitWith({EmptyTable})

NextAlias ==
    \/ \E op \in {"get_all_preferences", "export_preferences"} :
           get_all_preferences(op)
    \/ \E key \in AliasKeys : get_preference(key)
    \/ \E key \in AliasKeys, value \in AliasValues : caller_assigns(key, value)
    \/ \E key \in AliasKeys, value \in AliasValues : set_preference(key, value)

SpecAlias == InitAlias /\ [][NextAlias]_vars

----------------------------------------------------------------------------
(* Specification of the defaults written back: an instance is built over a *)
(* timezone database, one recognized key is set to its own default and is  *)
(* read back.                                                              *)

InitDefaults == InitWith({EmptyTable})

NextDefaults ==
    \/ /\ last.op = "none"
       /\ \E db \in Databases : init_service(db)
    \/ /\ last.op = "__init__"
       /\ \E key \in KnownKeys : set_preference(key, DEFAULT_PREFERENCES[key])
    \/ /\ last.op = "set_preference"
       /\ get_preference(last.key)

SpecDefaults == InitDefaults /\ [][NextDefaults]_vars

----------------------------------------------------------------------------
(* Specification of the reload over rows that anyone may have written: the *)
(* table holds any of the stored strings below under an integer key and    *)
(* under a key of another type.                                            *)

StoredStrings ==
    {"", "abc", "true", "True", "false", "False", "\"true\"", "null", "[]",
     "50", "-7", "+5", "50.0", "\"25\"", "12abc", "Infinity", "-Infinity",
     "NaN"}

RowKeys == {"messages_per_page", "time_format"}

RowTables ==
    UNION {[{"pref_" \o k : k \in S} -> StoredStrings] : S \in SUBSET RowKeys}

InitRows == InitWith(RowTables)

NextRows ==
    \/ get_all_preferences("get_all_preferences")
    \/ \E key \in RowKeys : get_preference(key)

SpecRows == InitRows /\ [][NextRows]_vars

----------------------------------------------------------------------------
(* Specification of two threads calling one instance: every statement of   *)
(* get_preference and of set_preference that touches the table or the      *)
(* cache is a step of its own, and the steps of the threads interleave.    *)
(* The clock stands still, so a filled cache is always inside its window.  *)

RaceKeys == {"time_format"}
RaceValues == {PyStr("12h"), PyStr("24h"), PyStr("6h")}

InitRace == InitWith({EmptyTable})

NextRace ==
    \E t \in Threads :
        \/ \E key \in RaceKeys : thread_check(t, key)
        \/ thread_return_cache(t)
        \/ thread_load(t)
        \/ thread_fill(t)
        \/ thread_stamp(t)
        \/ \E key \in RaceKeys, value \in RaceValues : thread_write(t, key, value)
        \/ thread_raise(t)
        \/ thread_clear(t)

SpecRace == InitRace /\ [][NextRace]_vars

----------------------------------------------------------------------------
(* Properties *)

ReadOps == {"get_all_preferences", "get_preference"}
BatchOps == {"set_multiple_preferences", "import_preferences"}

\* a step that is a call on the instance
IsCallStep == last' # last \/ prev' # prev

\* the value the last read returned for key
Returned(key) ==
    IF last.op = "get_preference" THEN last.res ELSE last.snap[key]

\* the last read answers for key
AnswersFor(key) ==
    \/ last.op = "get_all_preferences"
    \/ last.op = "get_preference" /\ last.key = key

\* the schema table of the specification: the declared default of each key
DeclaredDefaults ==
    [k \in KnownKeys |->
        CASE k \in {"show_message_previews", "show_reaction_notifications",
                    "enable_auto_reactions", "enable_ai_features",
                    "filter_persist_navigation", "notification_sound"} -> PyBool(TRUE)
          [] k \in {"show_unmonitored_groups", "compact_message_view",
                    "show_deleted_messages"} -> PyBool(FALSE)
          [] k = "messages_per_page" -> PyInt(50)
          [] k = "auto_refresh_interval" -> PyInt(30)
          [] k = "dashboard_refresh_rate" -> PyInt(60)
          [] k = "timezone" -> PyStr("UTC")
          [] k = "date_format" -> PyStr("YYYY-MM-DD")
          [] k = "time_format" -> PyStr("24h")
          [] k = "default_emoji_mode" -> PyStr("random")
          [] k = "language" -> PyStr("en")
          [] k = "default_ai_provider" -> PyStr("ollama")
          [] k = "activity_chart_style" -> PyStr("bars")]

\* value has the declared type of key and, when key has an allowed list,
\* is one of its members
WellFormed(key, value) ==
    /\ key \in KnownKeys
    /\ value.t = DeclaredDefaults[key].t
    /\ key \in DOMAIN PREFERENCE_OPTIONS =>
           \E i \in 1..Len(PREFERENCE_OPTIONS[key]) : PREFERENCE_OPTIONS[key][i] = value

\* C1: on one instance, the read that follows a successful
\* set_preference(k, v), with no other writer in between, reloads from the
\* table (however fresh the cache was when the write ran) and returns v for k.
C1_ReadAfterWrite ==
    ( /\ last.op \in ReadOps
      /\ prev.op = "set_preference"
      /\ prev.status = "ok"
      /\ AnswersFor(prev.key)
      /\ ~last.stale )
    => /\ last.reads = 1
       /\ WellFormed(prev.key, prev.value) => Returned(prev.key) = prev.value

\* the write found a cache loaded less than CacheTimeout seconds before, and
\* the read after it returned the value written
C1_Witness ==
    /\ last.op = "get_preference"
    /\ prev.op = "set_preference"
    /\ prev.status = "ok"
    /\ prev.key = last.key
    /\ prev.age \in 0..(CacheTimeout - 1)
    /\ ~last.stale
    /\ last.res = prev.value
    /\ last.res # DeclaredDefaults[last.key]

\* C2: a read is answered from the cache exactly when the cache is less
\* than CacheTimeout seconds old; at every greater age, a day or more
\* included, the read reloads from the table.
C2_TtlBound ==
    last.op \in ReadOps =>
        (last.reads = 0 <=> last.age \in 0..(CacheTimeout - 1))

\* C3: the second of two consecutive get_all_preferences calls, when the
\* cache it finds is less than CacheTimeout seconds old, returns the snapshot
\* the first returned and reads nothing from the table.
C3_CachedRead ==
    [][ ( /\ IsCallStep
          /\ last.op = "get_all_preferences"
          /\ last'.op = "get_all_preferences"
          /\ last'.age \in 0..(CacheTimeout - 1) )
        => /\ last'.snap = last.snap
           /\ last'.reads = 0 ]_vars

\* two get_all_preferences calls some seconds apart inside the window, the
\* table changed by another writer in between
C3_Witness ==
    /\ last.op = "get_all_preferences"
    /\ prev.op = "get_all_preferences"
    /\ last.age \in 1..(CacheTimeout - 1)
    /\ last.reads = 0
    /\ last.stale

\* C4: get_preference(k) for a recognized key k without a row in the table
\* returns the declared default of k, with its type.
C4_DefaultWhenUnset ==
    ( /\ last.op = "get_preference"
      /\ last.key \in KnownKeys
      /\ ("pref_" \o last.key) \notin DOMAIN bot_config )
    => last.res = DeclaredDefaults[last.key]

\* a default returned while the table holds a row of another preference
C4_Witness ==
    /\ last.op = "get_preference"
    /\ last.key = "messages_per_page"
    /\ prev.op = "set_preference"
    /\ prev.status = "ok"
    /\ "pref_time_format" \in DOMAIN bot_config
    /\ "pref_messages_per_page" \notin DOMAIN bot_config
    /\ last.res = PyInt(50)

\* what get_all_preferences would return over table rows with cache c
\* loaded at ts, at time t
Effective(rows, c, ts, t) == IF CacheHit(c, ts, t) THEN c ELSE Reload(rows)

\* C5: a set_preference call that raises (unknown key, or a value outside
\* the allowed list of the key) leaves the table, the cache and its
\* timestamp, and every effective value as they were.
C5_RejectedSetNoEffect ==
    [][ ( /\ IsCallStep
          /\ last'.op = "set_preference"
          /\ last'.status # "ok" )
        => /\ last'.status = IF last'.key \in KnownKeys
                             THEN "invalid_value" ELSE "unknown_key"
           /\ bot_config' = bot_config
           /\ cache' = cache
           /\ cacheTs' = cacheTs
           /\ Effective(bot_config', cache', cacheTs', now')
              = Effective(bot_config, cache, cacheTs, now) ]_vars

\* a rejected value for a key that has a row, with the cache loaded
C5_Witness ==
    /\ last.op = "set_preference"
    /\ last.status = "invalid_value"
    /\ last.key = "time_format"
    /\ "pref_time_format" \in DOMAIN bot_config
    /\ DOMAIN cache # {}

\* C6: set_preference(k, v) on a recognized key succeeds exactly when v has
\* the declared type of k and is in the allowed list of k when k has one.
C6_AcceptsIffWellFormed ==
    (last.op = "set_preference" /\ last.key \in KnownKeys)
    => (last.status = "ok" <=> WellFormed(last.key, last.value))

\* C7: a well-formed value written by set_preference comes back from the
\* reloading read that follows with the same value and the same type.
C7_RoundTrip ==
    ( /\ last.op = "get_preference"
      /\ prev.op = "set_preference"
      /\ prev.status = "ok"
      /\ prev.key = last.key
      /\ WellFormed(prev.key, prev.value) )
    => /\ last.reads = 1
       /\ last.res = prev.value

\* a boolean written and read back as a boolean
C7_Witness ==
    /\ last.op = "get_preference"
    /\ prev.op = "set_preference"
    /\ prev.status = "ok"
    /\ prev.key = last.key
    /\ prev.value = PyBool(FALSE)
    /\ DeclaredDefaults[last.key] = PyBool(TRUE)
    /\ last.res = PyBool(FALSE)

\* C8: the get_all_preferences that follows reset_to_defaults returns the
\* default map: every recognized key with its default and no other key.
C8_ResetThenDefaults ==
    ( /\ last.op = "get_all_preferences"
      /\ prev.op = "reset_to_defaults"
      /\ ~last.stale )
    => last.snap = DeclaredDefaults

\* the reset ran over a loaded cache, and the read after it reloaded
C8_Witness ==
    /\ last.op = "get_all_preferences"
    /\ prev.op = "reset_to_defaults"
    /\ prev.age >= 0
    /\ last.reads = 1
    /\ last.snap = DeclaredDefaults

\* C9: reset_to_defaults leaves every row whose key does not begin with the
\* literal 'pref_' as it was.
C9_ResetKeepsOtherRows ==
    [][ (IsCallStep /\ last'.op = "reset_to_defaults")
        => \A k \in DOMAIN bot_config :
               ~StartsWith(k, "pref_")
               => (k \in DOMAIN bot_config' /\ bot_config'[k] = bot_config[k]) ]_vars

\* the index of the first entry of batch that set_preference rejects, 0 when
\* it rejects none
FirstRejected(batch) ==
    LET bad == {i \in 1..Len(batch) : Validate(batch[i].key, batch[i].value) # "ok"}
    IN  IF bad = {} THEN 0 ELSE CHOOSE i \in bad : \A j \in bad : i <= j

\* the number of entries of the last batch that were applied
Applied(call) == IF call.at = 0 THEN Len(call.batch) ELSE call.at - 1

RowIs(rows, key, raw) ==
    ("pref_" \o key) \in DOMAIN rows /\ rows["pref_" \o key] = raw

SameRow(rows1, rows2, rowKey) ==
    IF rowKey \in DOMAIN rows1
    THEN rowKey \in DOMAIN rows2 /\ rows2[rowKey] = rows1[rowKey]
    ELSE rowKey \notin DOMAIN rows2

\* C10: set_multiple_preferences and import_preferences stop at the first
\* rejected entry and raise its error; the entries before it are written and
\* the next read returns them; the rejected entry and those after it are not
\* applied.
C10_BatchNotTransactional ==
    [][ /\ (IsCallStep /\ last'.op \in BatchOps)
           => /\ last'.at = FirstRejected(last'.batch)
              /\ last'.status = "ok" <=> last'.at = 0
              /\ \A j \in 1..Len(last'.batch) :
                     IF j <= Applied(last')
                     THEN RowIs(bot_config', last'.batch[j].key,
                                Serialize(last'.batch[j].value))
                     ELSE SameRow(bot_config, bot_config',
                                  "pref_" \o last'.batch[j].key)
        /\ (IsCallStep /\ last'.op = "get_all_preferences" /\ last.op \in BatchOps)
           => \A j \in 1..Applied(last) :
                  last'.snap[last.batch[j].key] = last.batch[j].value ]_vars

\* a batch whose second entry, a time_format outside the allowed list, was
\* rejected, and the read after it showing the first entry
C10_Witness ==
    /\ last.op = "get_all_preferences"
    /\ prev.op \in BatchOps
    /\ prev.at = 2
    /\ prev.status = "invalid_value"
    /\ last.reads = 1
    /\ last.snap["show_message_previews"] = PyBool(FALSE)
    /\ last.snap["time_format"] = DeclaredDefaults["time_format"]

\* the stored strings of the members of the allowed list of key
StoredForms(key) ==
    {Serialize(PREFERENCE_OPTIONS[key][i]) : i \in 1..Len(PREFERENCE_OPTIONS[key])}

\* C11: over a table that starts empty and is written only by
\* set_preference, set_multiple_preferences and reset_to_defaults, the row of
\* every key with an allowed list, when there is one, holds the stored string
\* of a member of that list.
C11_StoredIsAllowed ==
    \A key \in DOMAIN PREFERENCE_OPTIONS :
        ("pref_" \o key) \in DOMAIN bot_config
        => bot_config["pref_" \o key] \in StoredForms(key)

C13_SetIdempotent ==
    [][ ( /\ IsCallStep
          /\ last.op = "set_preference"
          /\ last.status = "ok"
          /\ last'.op = "set_preference"
          /\ last'.key = last.key
          /\ last'.value = last.value )
        => /\ last'.status = "ok"
           /\ RowIs(bot_config, last.key, Serialize(last.value))
           /\ bot_config' = bot_config
           /\ cache' = cache
           /\ cacheTs' = cacheTs ]_vars

\* the same accepted call made twice, over a table holding another row too
C13_Witness ==
    /\ last.op = "set_preference"
    /\ last.status = "ok"
    /\ prev.op = "set_preference"
    /\ prev.status = "ok"
    /\ prev.key = last.key
    /\ prev.value = last.value
    /\ RowIs(bot_config, last.key, Serialize(last.value))
    /\ Cardinality(DOMAIN bot_config) = 2

\* C14: when the stored timezone preference is a name the timezone database
\* does not hold, convert_to_user_timezone raises nothing and returns the
\* instant of its argument on the clock of UTC.
C14_UnknownZoneFallsBack ==
    ( /\ last.op = "convert_to_user_timezone"
      /\ "pref_timezone" \in DOMAIN bot_config
      /\ ~PytzTimezone(last.snap["timezone"]).ok )
    => /\ last.status = "ok"
       /\ last.out = AsTimezone(IF last.dt.tz = ""
                                THEN Localize(last.dt, last.from_tz)
                                ELSE last.dt, "UTC")

\* the date a date_format name lays out: YYYY, MM and DD stand for the year,
\* the month and the day, every other character for itself
RECURSIVE Layout(_, _)
Layout(name, dt) ==
    IF Len(name) = 0 THEN ""
    ELSE IF StartsWith(name, "YYYY")
         THEN ZeroPad(NatToStr(dt.year), 4) \o Layout(SubSeq(name, 5, Len(name)), dt)
    ELSE IF StartsWith(name, "MM")
         THEN ZeroPad(NatToStr(dt.month), 2) \o Layout(SubSeq(name, 3, Len(name)), dt)
    ELSE IF StartsWith(name, "DD")
         THEN ZeroPad(NatToStr(dt.day), 2) \o Layout(SubSeq(name, 3, Len(name)), dt)
    ELSE CharAt(name, 1) \o Layout(SubSeq(name, 2, Len(name)), dt)

\* the time of day on the 12-hour clock with its marker, and on the 24-hour
\* clock
Clock12(dt) ==
    ZeroPad(NatToStr(Hour12(dt.hour)), 2) \o ":" \o ZeroPad(NatToStr(dt.minute), 2)
    \o " " \o (IF dt.hour < 12 THEN "AM" ELSE "PM")

Clock24(dt) ==
    ZeroPad(NatToStr(dt.hour), 2) \o ":" \o ZeroPad(NatToStr(dt.minute), 2)

\* C17: format_date returns the date laid out as the effective date_format
\* names it when that is one of the five listed formats and as YYYY-MM-DD for
\* every other stored value; with include_time it appends one space and the
\* time, on the 12-hour clock with AM or PM when the effective time_format is
\* '12h' and on the 24-hour clock for every other value; without include_time
\* it appends nothing.
C17_PatternChoice ==
    last.op = "format_date" =>
        LET date_format == last.snap["date_format"]
            listed == date_format \in SeqRange(PREFERENCE_OPTIONS["date_format"])
            date == Layout(IF listed THEN date_format.s ELSE "YYYY-MM-DD", last.dt)
            time == IF last.snap["time_format"] = PyStr("12h")
                    THEN Clock12(last.dt) ELSE Clock24(last.dt)
        IN  /\ last.status = "ok"
            /\ last.res = PyStr(IF last.value = PyBool(TRUE)
                                THEN date \o " " \o time ELSE date)

\* the call needs the store: a read the cache does not answer, a
\* set_preference whose key and value pass the validation, a reset
NeedsStore(call, c, ts, t) ==
    \/ call.op \in ReadOps /\ ~CacheHit(c, ts, t)
    \/ call.op = "set_preference" /\ Validate(call.key, call.value) = "ok"
    \/ call.op = "reset_to_defaults"

\* C15: a get_all_preferences, set_preference or reset_to_defaults call that
\* needs the store while the store raises ends with the exception of the
\* store, after asking for a connection once, and leaves the cache, its
\* timestamp and the table as they were.
C15_StoreFailurePropagates ==
    [][ ( /\ IsCallStep
          /\ store # "up"
          /\ NeedsStore(last', cache, cacheTs, now) )
        => /\ last'.status = "store_error"
           /\ last'.conns = 1
           /\ cache' = cache
           /\ cacheTs' = cacheTs
           /\ bot_config' = bot_config ]_vars

\* a reload that failed over an expired cache, which is still there
C15_Witness ==
    /\ last.op = "get_all_preferences"
    /\ last.status = "store_error"
    /\ last.age >= CacheTimeout
    /\ DOMAIN cache # {}
    /\ cacheTs = 0

DeclaredCategory ==
    [key \in KnownKeys |->
        CASE key \in {"timezone", "date_format", "time_format", "language"} -> "Display"
          [] key \in {"messages_per_page", "show_message_previews",
                      "compact_message_view", "show_deleted_messages",
                      "filter_persist_navigation"} -> "Messages"
          [] key \in {"show_reaction_notifications", "notification_sound",
                      "auto_refresh_interval", "dashboard_refresh_rate"} -> "Notifications"
          [] key \in {"enable_ai_features", "default_ai_provider",
                      "enable_auto_reactions", "default_emoji_mode"} -> "AI & Automation"
          [] key \in {"show_unmonitored_groups", "activity_chart_style"} -> "Advanced"]

\* C18: get_preference_metadata returns an entry for every recognized key
\* and for no other; the entry of a key holds the declared default of the
\* key, the category the category table gives it (the key stands in one
\* list of the table: no key falls under Other) and a description that is
\* not empty; and its current value is the value a get_preference call for
\* the key returns right after.
C18_Metadata ==
    [][ /\ ( /\ IsCallStep
             /\ last'.op = "get_preference_metadata"
             /\ last'.status = "ok" )
           => /\ DOMAIN last'.meta = KnownKeys
              /\ \A key \in KnownKeys :
                     /\ last'.meta[key].default = DeclaredDefaults[key]
                     /\ last'.meta[key].category = DeclaredCategory[key]
                     /\ Cardinality({i \in 1..Len(categories) :
                            key \in SeqRange(categories[i].keys)}) = 1
                     /\ Len(last'.meta[key].description) > 0
        /\ ( /\ IsCallStep
             /\ last.op = "get_preference_metadata"
             /\ last.status = "ok"
             /\ last'.op = "get_preference" )
           => last'.res = last.meta[last'.key].current ]_vars

\* the metadata taken over a table holding a row of the service and a row
\* of another component, then the key of the row read: its current value is
\* the one stored, not the default
C18_Witness ==
    /\ last.op = "get_preference"
    /\ last.key = "show_message_previews"
    /\ last.res = PyBool(FALSE)
    /\ prev.op = "get_preference_metadata"
    /\ prev.status = "ok"
    /\ "prefetch_limit" \in DOMAIN bot_config

\* C19: the catalog __init__ builds is the common list in its order, then
\* the identifiers of the timezone database that are not in the common list,
\* in ascending lexicographic order; no identifier stands in it twice and
\* every identifier of the database stands in it.
C19_Catalog ==
    last.op = "__init__" =>
        LET catalog == last.options
            database == SeqRange(last.all_timezones)
            n == Len(common_zones)
        IN  /\ Len(catalog) >= n
            /\ SubSeq(catalog, 1, n) = common_zones
            /\ {catalog[i] : i \in (n + 1)..Len(catalog)}
               = database \ SeqRange(common_zones)
            /\ \A i \in (n + 1)..(Len(catalog) - 1) :
                   StrLess(catalog[i], catalog[i + 1])
            /\ \A i, j \in 1..Len(catalog) : i # j => catalog[i] # catalog[j]
            /\ database \subseteq SeqRange(catalog)

\* a database given out of order, holding an identifier of the common list
\* and two others that differ in one character
C19_Witness ==
    /\ last.op = "__init__"
    /\ last.all_timezones = <<"Etc/GMT-1", "UTC", "Etc/GMT+1">>
    /\ Len(last.options) = Len(common_zones) + 2
    /\ last.options[Len(common_zones) + 1] = "Etc/GMT+1"

\* C20: the snapshot a reload returns is made of the rows whose key begins
\* with the literal 'pref_' alone: every entry of it is a recognized key or
\* the key of such a row without the prefix, and the value of a recognized
\* key is decoded from its row 'pref_' + key, or is its default when there
\* is no such row.
C20_ReloadReadsOwnRows ==
    (last.op = "get_all_preferences" /\ last.reads = 1 /\ last.status = "ok")
    => /\ \A key \in DOMAIN last.snap :
              key \in KnownKeys \/ ("pref_" \o key) \in DOMAIN bot_config
       /\ \A key \in KnownKeys :
              last.snap[key] =
                  IF ("pref_" \o key) \in DOMAIN bot_config
                  THEN DecodeRow(key, bot_config["pref_" \o key])
                  ELSE DeclaredDefaults[key]

\* C21: a read that overlaps a write can leave the snapshot taken before
\* the write in the cache after the write cleared it, and a later read in
\* the window is then served the old value; as long as no two calls of the
\* instance ever overlapped, every read returns what the table holds
C21_SerialReadsCurrent ==
    (last.op = "get_preference" /\ ~last.overlap) =>
        (last.status = "ok" /\ last.res = last.truth)

\* a read that ran alone, after calls that overlapped and have all
\* returned, served from the cache a value the table no longer holds
C21_Witness ==
    /\ last.op = "get_preference"
    /\ last.alone
    /\ last.overlap
    /\ last.status = "ok"
    /\ last.res = PyStr("12h")
    /\ last.truth = PyStr("24h")
    /\ AllIdle
    /\ cache # NoCache
    /\ cache["time_format"] = PyStr("12h")
    /\ bot_config["pref_time_format"] = "24h"

\* C22: a read through a newly built instance always reads the table and
\* returns what the last completed write left there, and a long-lived
\* instance returns a value another instance has overwritten only while
\* its cache has not yet expired
C22_FreshOrUnexpired ==
    /\ (last.op = "get_user_timezone" /\ ~ext) =>
           (last.reads = 1 /\ last.res = Lookup(Reload(bot_config), last.key))
    /\ (last.op = "get_preference" /\ ~ext
            /\ last.res # Lookup(Reload(bot_config), last.key)) =>
           (last.age >= 0 /\ last.age < CacheTimeout)

\* C23: whatever strings the rows hold, the reload completes and returns a
\* snapshot: no content of a row makes get_all_preferences raise
C23_ReloadNeverFails ==
    (last.op \in {"get_all_preferences", "get_preference"}) =>
        /\ last.status = "ok"
        /\ (last.op = "get_all_preferences" =>
                KnownKeys \subseteq DOMAIN last.snap)

\* the value the two coercions leave for a decoded value: the four words
\* become booleans under any key; under an integer key the result becomes
\* an integer when int() accepts it and stays as it is otherwise
IsWord(v, words) == v.t = "str" /\ v.s \in words

AfterCoercions(key, v) ==
    LET b == IF IsWord(v, {"true", "True"}) THEN PyBool(TRUE)
             ELSE IF IsWord(v, {"false", "False"}) THEN PyBool(FALSE)
             ELSE v
    IN  IF key \in IntegerKeys /\ PyIntOf(b).ok THEN PyIntOf(b).v ELSE b

\* C24: the reload applies the boolean coercion to every row and then the
\* integer coercion to the rows of the three integer keys only, keeping an
\* inconvertible value without raising
C24_LegacyCoercions ==
    (last.op = "get_all_preferences") =>
        /\ last.status = "ok"
        /\ \A k \in PrefRows(bot_config) :
              last.snap[StripPrefix(k)] =
                  AfterCoercions(StripPrefix(k), ParseOrRaw(bot_config[k]))

\* C25: format_timestamp raises nothing; it returns 'Unknown time' for a
\* missing or zero timestamp and when anything but the timezone fails, and
\* for a timezone, asked for or stored, that the timezone database does not
\* hold it returns the instant on the clock of UTC, laid out by the stored
\* date and time formats
C25_NeverRaises ==
    last.op = "format_timestamp" =>
        /\ last.status = "ok"
        /\ Falsy(last.timestamp_ms) => last.res = UnknownTime
        /\ ( /\ ~Falsy(last.timestamp_ms)
             /\ \/ last.store # "up"
                \/ Unhashable(last.snap["date_format"]) ) =>
               last.res = UnknownTime
        /\ ( /\ ~Falsy(last.timestamp_ms)
             /\ last.store = "up"
             /\ ~Unhashable(last.snap["date_format"])
             /\ ~PytzTimezone(IF Falsy(last.user_timezone)
                              THEN last.snap["timezone"]
                              ELSE last.user_timezone).ok ) =>
               LET utc == FromTimestamp(last.timestamp_ms.n)
                   date_format == last.snap["date_format"]
                   listed == date_format \in SeqRange(PREFERENCE_OPTIONS["date_format"])
                   date == Layout(IF listed THEN date_format.s ELSE "YYYY-MM-DD", utc)
                   time == IF last.snap["time_format"] = PyStr("12h")
                           THEN Clock12(utc) ELSE Clock24(utc)
               IN  last.res = PyStr(IF last.include_time
                                    THEN date \o " " \o time ELSE date)

\* a timestamp asked for in a zone nobody knows, shown on the clock of UTC
C25_Witness ==
    /\ last.op = "format_timestamp"
    /\ last.timestamp_ms = PyInt(1000000000)
    /\ last.user_timezone = PyStr("Mars/Phobos")
    /\ last.include_time
    /\ bot_config = [k \in {"pref_time_format"} |-> "12h"]
    /\ last.res = PyStr("1970-01-12 01:46 PM")

\* the sum of f over the set S
RECURSIVE SumOver(_, _)
SumOver(f, S) ==
    IF S = {} THEN 0
    ELSE LET x == CHOOSE y \in S : TRUE IN f[x] + SumOver(f, S \ {x})

\* the rows of the test data in each table
TestRows(db) ==
    [groups |-> Cardinality(db.groups \cap SeqRange(test_groups)),
     users |-> Cardinality({u \in db.users : u.phone \in SeqRange(test_phones)}),
     messages |-> Cardinality({m \in db.messages :
                                 m.group_id \in SeqRange(test_groups)}),
     attachments |-> SumOver(db.attachments, DOMAIN db.attachments \cap AttachmentIds)]

\* C26: clean_test_data leaves no row of an earlier run, so after any
\* number of runs the database holds the test data of one run
C26_RerunSameState ==
    /\ last.op = "TestDataGenerator.clean_test_data" =>
           TestRows(test_db) = [groups |-> 0, users |-> 0, messages |-> 0,
                                attachments |-> 0]
    /\ last.op = "TestDataGenerator.run" =>
           TestRows(test_db) =
               [groups |-> Len(test_groups), users |-> Len(test_phones),
                messages |-> MessagesPerRun, attachments |-> AttachmentMessages]

\* C27: in every state the operations of the service reach, importing what
\* export_preferences returns succeeds, and the snapshot read afterwards
\* equals the exported one key by key
C27_ExportImportRoundTrip ==
    last.op = "import_preferences" =>
        /\ last.status = "ok"
        /\ Effective(bot_config, cache, cacheTs, now) = last.exported

\* C28: the mapping handed to a caller is the caller's own: whatever the
\* caller assigns in it, every later snapshot and every later
\* get_preference shows what the table and the schema defaults hold
C28_SnapshotIndependent ==
    /\ (last.op \in {"get_all_preferences", "export_preferences"}
            /\ last.status = "ok") =>
           last.snap = Reload(bot_config)
    /\ (last.op = "get_preference" /\ last.status = "ok") =>
           last.res = Lookup(Reload(bot_config), last.key)

\* C29: every key with an allowed list is a schema key and its default is
\* a member of the list, the timezone default being in the catalog built
\* over any timezone database; so set_preference of a recognized key to its
\* own default is accepted
C29_DefaultsAllowed ==
    /\ DOMAIN PREFERENCE_OPTIONS \subseteq DOMAIN DEFAULT_PREFERENCES
    /\ \A k \in DOMAIN PREFERENCE_OPTIONS :
           PyIn(DEFAULT_PREFERENCES[k], PREFERENCE_OPTIONS[k])
    /\ last.op = "__init__" =>
           PyIn(DEFAULT_PREFERENCES["timezone"], StrOptions(last.options))
    /\ (last.op = "set_preference" /\ last.key \in DOMAIN DEFAULT_PREFERENCES
            /\ last.value = DEFAULT_PREFERENCES[last.key]) =>
           (last.status = "ok" /\ RowIs(bot_config, last.key, Serialize(last.value)))

\* the default of a key with a list of integers written on an instance
\* built over a timezone database
C29_Witness ==
    /\ last.op = "set_preference"
    /\ last.key = "dashboard_refresh_rate"
    /\ last.value = PyInt(60)
    /\ last.status = "ok"
    /\ prev.op = "__init__"
    /\ bot_config["pref_dashboard_refresh_rate"] = "60"

=============================================================================
